---- MODULE Spec2Model ----
(***************************************************************************)
(* FitSync backend (bitnbuild_backend): the route handlers of              *)
(* src/users/{user,stats,dashboard,events}.js and the middleware of        *)
(* middleware/userMiddleware.js as state machines over the database        *)
(* tables.  Every await of a handler is a point where another request may  *)
(* run, so a handler is one action per stretch of code between awaits.     *)
(***************************************************************************)
EXTENDS Integers, Sequences, FiniteSets, TLC

VARIABLES
    users,          \* table User: set of records
    events,         \* table Event: set of records
    registrations,  \* table EventRegistration: set of records
    dailyStats,     \* table DailyStat: set of records
    activities,     \* table Activity: set of records
    reqs,           \* the requests in flight, one per connection slot
    nextId,         \* the id generator of the database (ids are never reused)
    now,            \* the clock (new Date())
    dbUp,           \* whether a database call succeeds
    issued,         \* number of requests sent so far
    mealPlans,      \* table MealPlan: set of records
    calc            \* the pure functions' inputs and outputs

vars == <<users, events, registrations, dailyStats, activities, reqs, nextId,
          now, dbUp, issued, mealPlans, calc>>

(***************************************************************************)
(* Bounds of the model.                                                    *)
(***************************************************************************)
MaxRequests == 3
MaxTime == 2
MaxMinutes == 4

Slots == {1, 2}

NoId == 0

(***************************************************************************)
(* JavaScript values that the handlers tell apart.                         *)
(***************************************************************************)
Null == [kind |-> "null", v |-> 0]
NaN == [kind |-> "NaN", v |-> 0]
Infinity == [kind |-> "Infinity", v |-> 0]
Num(n) == [kind |-> "number", v |-> n]

\* !x for a value of the above kinds
Falsy(x) == x.kind \in {"null", "NaN"} \/ (x.kind = "number" /\ x.v = 0)

\* x < n for a number n
JsLess(x, n) == x.kind = "number" /\ x.v < n

\* round to the nearest integer, halves up (Math.round, and toFixed on a
\* value that is exact in binary), of the rational p / q with q > 0
RoundDiv(p, q) == (2 * p + q) \div (2 * q)

(***************************************************************************)
(* stats.js: BMI category.  A bmi is carried in hundredths.                *)
(***************************************************************************)
BmiCat(c, g) == [category |-> c, good |-> g]

getBMICategoryLe(bmi) ==
    IF bmi.kind = "number" /\ bmi.v <= 1850 THEN BmiCat("Underweight", FALSE)
    ELSE IF bmi.kind = "number" /\ bmi.v <= 2500 THEN BmiCat("Normal", TRUE)
    ELSE IF bmi.kind = "number" /\ bmi.v <= 3000 THEN BmiCat("Overweight", FALSE)
    ELSE BmiCat("Obese", FALSE)

getBMICategory(bmi) ==
    IF JsLess(bmi, 1850) THEN BmiCat("Underweight", FALSE)
    ELSE IF JsLess(bmi, 2500) THEN BmiCat("Normal", TRUE)
    ELSE IF JsLess(bmi, 3000) THEN BmiCat("Overweight", FALSE)
    ELSE BmiCat("Obese", FALSE)

\* (weight / (heightM * heightM)).toFixed(decimals), in hundredths
BmiFixed(heightCm, weightKg, decimals) ==
    IF heightCm = 0
    THEN (IF weightKg = 0 THEN NaN ELSE Infinity)
    ELSE IF decimals = 2
         THEN Num(RoundDiv(weightKg * 1000000, heightCm * heightCm))
         ELSE Num(10 * RoundDiv(weightKg * 100000, heightCm * heightCm))

\* dashboard.js: the inline classification of /getdailystats
DashboardBmiCategory(bmi) ==
    IF JsLess(bmi, 1850) THEN BmiCat("Underweight", FALSE)
    ELSE IF JsLess(bmi, 2500) THEN BmiCat("Normal", TRUE)
    ELSE IF JsLess(bmi, 3000) THEN BmiCat("Overweight", FALSE)
    ELSE BmiCat("Obese", FALSE)

NoCat == BmiCat("none", FALSE)

\* dashboard.js: bmi and bmiCategory of the response of /getdailystats
DashboardBmi(heightCm, weightKg) ==
    IF weightKg # 0 /\ heightCm # 0
    THEN LET bmi == BmiFixed(heightCm, weightKg, 1)
         IN [bmi |-> bmi, bmiCategory |-> DashboardBmiCategory(bmi)]
    ELSE [bmi |-> Null, bmiCategory |-> NoCat]

(***************************************************************************)
(* stats.js: the local calorie estimate.                                   *)
(***************************************************************************)
activityCalories ==
    [walking |-> 4, running |-> 10, swimming |-> 8, cycling |-> 7, yoga |-> 3,
     skipping |-> 12, dancing |-> 6, weightlifting |-> 6]

\* the all-lower-case properties every object inherits from Object.prototype
ObjectPrototypeKeys == {"constructor", "__proto__"}

\* the activity names of the requests of the model
ActivityNames ==
    {"walking", "Running", "swimming", "CYCLING", "yoga", "skipping", "Dancing",
     "weightlifting", "chess", "constructor", "__proto__"}

\* String.prototype.toLowerCase on the names of the model
toLowerCase(s) ==
    CASE s = "Running" -> "running"
      [] s = "CYCLING" -> "cycling"
      [] s = "Dancing" -> "dancing"
      [] OTHER -> s

\* activityCalories[key] is the table's own entry, a member inherited from
\* Object.prototype (an object: truthy, NaN in arithmetic) or undefined
calculateCalories(activity, minutes, weightKg) ==
    LET key == toLowerCase(activity)
    IN  IF key \in DOMAIN activityCalories
        THEN (IF activityCalories[key] = 0
              THEN Null
              ELSE Num(RoundDiv(activityCalories[key] * minutes * weightKg, 70)))
        ELSE IF key \in ObjectPrototypeKeys
             THEN NaN
             ELSE Null

(***************************************************************************)
(* The database and the requests.                                          *)
(***************************************************************************)
User(id, email, age, heightCm, currentWeightKg) ==
    [id |-> id, email |-> email, age |-> age, heightCm |-> heightCm,
     currentWeightKg |-> currentWeightKg, gender |-> "MALE",
     healthGoal |-> "MAINTENANCE", activityLevel |-> "MODERATE"]

NoUser == User(NoId, "", 0, 0, 0)

\* the two accounts every run starts with
Alice == User(1, "a@fit.io", 30, 200, 100)
Bob == User(2, "b@fit.io", 40, 160, 70)

UserRows(id) == {u \in users : u.id = id}

\* Authorization header: none, a token that jwt.verify rejects, or a token
\* signed for userId
NoTok == [kind |-> "none", userId |-> NoId]
BadTok == [kind |-> "bad", userId |-> NoId]
OkTok(u) == [kind |-> "ok", userId |-> u]

NoBody == [has |-> {}]
NoLoc == [none |-> TRUE]

Idle ==
    [route |-> "none", pc |-> "idle", tok |-> NoTok, user |-> NoUser,
     param |-> NoId, body |-> NoBody, loc |-> NoLoc, status |-> 0,
     reached |-> FALSE, threw |-> FALSE, data |-> NoLoc]

Free(s) == reqs[s].pc \in {"idle", "done"}

\* res.status(code).json(...): the request is answered
Respond(r, code) == [r EXCEPT !.pc = "done", !.status = code]

RespondWith(r, code, data) ==
    [r EXCEPT !.pc = "done", !.status = code, !.data = data]

\* a database call threw and the handler's catch answered
RespondThrown(r, code) == [r EXCEPT !.pc = "done", !.status = code, !.threw = TRUE]

Goto(r, pc) == [r EXCEPT !.pc = pc]

Tables == <<users, events, registrations, dailyStats, activities, mealPlans>>

(***************************************************************************)
(* userMiddleware.js: authenticateToken.  The part before the user lookup  *)
(* runs when the request arrives.                                          *)
(***************************************************************************)
authenticateTokenSkipVerify(r) ==
    IF r.tok.kind = "none" THEN Respond(r, 401) ELSE Goto(r, "auth")

authenticateToken(r) ==
    IF r.tok.kind = "none" THEN Respond(r, 401)
    ELSE IF r.tok.kind = "bad" THEN Respond(r, 403)
    ELSE Goto(r, "auth")

\* a request to a route guarded by authenticateToken arrives
Arrive(s, route, tok, param, body) ==
    /\ Free(s)
    /\ issued < MaxRequests
    /\ issued' = issued + 1
    /\ reqs' = [reqs EXCEPT ![s] =
            authenticateToken([Idle EXCEPT !.route = route, !.tok = tok,
                                           !.param = param, !.body = body])]
    /\ UNCHANGED <<Tables, nextId, now, dbUp, calc>>

\* the user lookup of authenticateToken found the user: req.user is set and
\* next() runs the route up to its first await
Authenticated(s, route) ==
    /\ reqs[s].pc = "auth"
    /\ reqs[s].route = route
    /\ dbUp
    /\ UserRows(reqs[s].tok.userId) # {}

AuthUser(s) == CHOOSE u \in users : u.id = reqs[s].tok.userId

\* the lookup found nobody (404), or it threw: the rejection of the async
\* jwt.verify callback is caught by nobody and the request is never answered
AuthFail(s) ==
    /\ reqs[s].pc = "auth"
    /\ IF ~dbUp
       THEN reqs' = [reqs EXCEPT ![s] = [@ EXCEPT !.pc = "hung", !.threw = TRUE]]
       ELSE /\ UserRows(reqs[s].tok.userId) = {}
            /\ reqs' = [reqs EXCEPT ![s] = Respond(@, 404)]
    /\ UNCHANGED <<Tables, nextId, now, dbUp, issued, calc>>

\* time passes
Tick ==
    /\ now < MaxTime
    /\ now' = now + 1
    /\ UNCHANGED <<Tables, reqs, nextId, dbUp, issued, calc>>

(***************************************************************************)
(* events.js                                                               *)
(***************************************************************************)
EventFields == {"name", "description", "location", "duration", "type", "eventDate"}

\* new Date(eventDate) of a string that is no date: getTime() is NaN
InvalidDate == -1

EventBody(has, name, eventDate) == [has |-> has, name |-> name, eventDate |-> eventDate]

EventRows(id) == {e \in events : e.id = id}

RegistrationRows(u, e) == {g \in registrations : g.userId = u /\ g.eventId = e}

\* validateEventData without the comparison with the current time
validateEventDataAnyDate(body, t) ==
    IF EventFields \ body.has # {} THEN 400
    ELSE IF body.eventDate = InvalidDate THEN 400
    ELSE 0

\* validateEventData: the status it answers, or 0 when it calls next();
\* t is new Date()
validateEventData(body, t) ==
    IF EventFields \ body.has # {} THEN 400
    ELSE IF body.eventDate = InvalidDate THEN 400
    ELSE IF body.eventDate < t THEN 400
    ELSE 0

\* POST /create: after authenticateToken, validateEventData, then the handler
\* up to prisma.event.create
CreateStart(s) ==
    /\ Authenticated(s, "create")
    /\ LET r == [reqs[s] EXCEPT !.user = AuthUser(s)]
           v == validateEventData(r.body, now)
       IN reqs' = [reqs EXCEPT ![s] =
               IF v # 0 THEN Respond(r, v)
               ELSE [r EXCEPT !.pc = "write", !.reached = TRUE,
                              !.loc = [at |-> now]]]
    /\ UNCHANGED <<Tables, nextId, now, dbUp, issued, calc>>

\* prisma.event.create (the creator must still exist: foreign key)
CreateWrite(s) ==
    /\ reqs[s].route = "create" /\ reqs[s].pc = "write"
    /\ IF dbUp /\ UserRows(reqs[s].user.id) # {}
       THEN /\ events' = events \cup
                    {[id |-> nextId, creatorId |-> reqs[s].user.id,
                      eventDate |-> reqs[s].body.eventDate,
                      name |-> reqs[s].body.name]}
            /\ nextId' = nextId + 1
            /\ reqs' = [reqs EXCEPT ![s] = Respond(@, 201)]
       ELSE /\ reqs' = [reqs EXCEPT ![s] = RespondThrown(@, 500)]
            /\ UNCHANGED <<events, nextId>>
    /\ UNCHANGED <<users, registrations, dailyStats, activities, mealPlans,
                   now, dbUp, issued, calc>>

\* PUT /:id, POST /:id/register, DELETE /:id/unregister, DELETE /:id: the
\* handler starts and awaits its first lookup
EventRouteStart(s, route) ==
    /\ Authenticated(s, route)
    /\ reqs' = [reqs EXCEPT ![s] =
            [@ EXCEPT !.user = AuthUser(s), !.pc = "find", !.reached = TRUE]]
    /\ UNCHANGED <<Tables, nextId, now, dbUp, issued, calc>>

\* the creator check of PUT /:id and DELETE /:id
IsCreatorAnyone(event, userId) == TRUE

IsCreator(event, userId) == event.creatorId = userId

\* PUT /:id from prisma.event.findUnique to prisma.event.update
UpdateFind(s) ==
    /\ reqs[s].route = "update" /\ reqs[s].pc = "find"
    /\ LET r == reqs[s]
           b == r.body
       IN reqs' = [reqs EXCEPT ![s] =
            IF ~dbUp THEN RespondThrown(r, 500)
            ELSE IF EventRows(r.param) = {} THEN Respond(r, 404)
            ELSE IF ~IsCreator(CHOOSE e \in EventRows(r.param) : TRUE, r.user.id)
                 THEN Respond(r, 403)
            ELSE IF "eventDate" \in b.has /\ b.eventDate = InvalidDate
                 THEN Respond(r, 400)
            ELSE IF "eventDate" \in b.has /\ b.eventDate < now
                 THEN Respond(r, 400)
            ELSE [r EXCEPT !.pc = "write", !.loc = [at |-> now]]]
    /\ UNCHANGED <<Tables, nextId, now, dbUp, issued, calc>>

\* prisma.event.update (throws when the record is gone)
UpdateWrite(s) ==
    /\ reqs[s].route = "update" /\ reqs[s].pc = "write"
    /\ LET r == reqs[s]
           b == r.body
       IN IF dbUp /\ EventRows(r.param) # {}
          THEN /\ events' =
                    {IF e.id = r.param
                     THEN [e EXCEPT
                            !.name = IF "name" \in b.has THEN b.name ELSE @,
                            !.eventDate =
                                IF "eventDate" \in b.has THEN b.eventDate ELSE @]
                     ELSE e : e \in events}
               /\ reqs' = [reqs EXCEPT ![s] = Respond(r, 200)]
          ELSE /\ reqs' = [reqs EXCEPT ![s] = RespondThrown(r, 500)]
               /\ UNCHANGED events
    /\ UNCHANGED <<users, registrations, dailyStats, activities, mealPlans,
                   nextId, now, dbUp, issued, calc>>

\* DELETE /:id from prisma.event.findUnique to prisma.event.delete
DeleteFind(s) ==
    /\ reqs[s].route = "delete" /\ reqs[s].pc = "find"
    /\ LET r == reqs[s]
       IN reqs' = [reqs EXCEPT ![s] =
            IF ~dbUp THEN RespondThrown(r, 500)
            ELSE IF EventRows(r.param) = {} THEN Respond(r, 404)
            ELSE IF ~IsCreator(CHOOSE e \in EventRows(r.param) : TRUE, r.user.id)
                 THEN Respond(r, 403)
            ELSE Goto(r, "write")]
    /\ UNCHANGED <<Tables, nextId, now, dbUp, issued, calc>>

\* the rows that go with an event when it is deleted: EventRegistration.eventId
\* refers to Event with ON DELETE CASCADE
CascadedNone(e) == {}

CascadedRegistrations(e) == {g \in registrations : g.eventId = e}

\* prisma.event.delete: the registrations of the event go with it (cascade)
DeleteWrite(s) ==
    /\ reqs[s].route = "delete" /\ reqs[s].pc = "write"
    /\ LET r == reqs[s]
       IN IF dbUp /\ EventRows(r.param) # {}
          THEN /\ events' = events \ EventRows(r.param)
               /\ registrations' = registrations \ CascadedRegistrations(r.param)
               /\ reqs' = [reqs EXCEPT ![s] = Respond(r, 200)]
          ELSE /\ reqs' = [reqs EXCEPT ![s] = RespondThrown(r, 500)]
               /\ UNCHANGED <<events, registrations>>
    /\ UNCHANGED <<users, dailyStats, activities, mealPlans, nextId, now, dbUp,
                   issued, calc>>

\* the event a register request has looked up, and when it compared the
\* event's date with new Date()
FoundEvent(r, e) ==
    [r EXCEPT !.pc = "findReg", !.loc = [at |-> now, eventDate |-> e.eventDate]]

RegisterFindEventAnyDate(s) ==
    /\ reqs[s].route = "register" /\ reqs[s].pc = "find"
    /\ LET r == reqs[s]
       IN reqs' = [reqs EXCEPT ![s] =
            IF ~dbUp THEN RespondThrown(r, 500)
            ELSE IF EventRows(r.param) = {} THEN Respond(r, 404)
            ELSE FoundEvent(r, CHOOSE e \in EventRows(r.param) : TRUE)]
    /\ UNCHANGED <<Tables, nextId, now, dbUp, issued, calc>>

\* POST /:id/register from prisma.event.findUnique to
\* prisma.eventRegistration.findUnique
RegisterFindEvent(s) ==
    /\ reqs[s].route = "register" /\ reqs[s].pc = "find"
    /\ LET r == reqs[s]
       IN reqs' = [reqs EXCEPT ![s] =
            IF ~dbUp THEN RespondThrown(r, 500)
            ELSE IF EventRows(r.param) = {} THEN Respond(r, 404)
            ELSE IF (CHOOSE e \in EventRows(r.param) : TRUE).eventDate < now
                 THEN Respond(r, 400)
            ELSE FoundEvent(r, CHOOSE e \in EventRows(r.param) : TRUE)]
    /\ UNCHANGED <<Tables, nextId, now, dbUp, issued, calc>>

\* from prisma.eventRegistration.findUnique to prisma.eventRegistration.create
RegisterFindRegistration(s) ==
    /\ reqs[s].route = "register" /\ reqs[s].pc = "findReg"
    /\ LET r == reqs[s]
       IN reqs' = [reqs EXCEPT ![s] =
            IF ~dbUp THEN RespondThrown(r, 500)
            ELSE IF RegistrationRows(r.user.id, r.param) # {} THEN Respond(r, 409)
            ELSE Goto(r, "write")]
    /\ UNCHANGED <<Tables, nextId, now, dbUp, issued, calc>>

\* the foreign keys of EventRegistration: the event and the user exist
RefersToRows(u, e) == EventRows(e) # {} /\ UserRows(u) # {}

\* whether the database accepts a new EventRegistration (userId, eventId): the
\* pair is a unique key (userId_eventId) and both rows it refers to must exist
RegistrationAccepted(u, e) ==
    /\ RegistrationRows(u, e) = {}
    /\ RefersToRows(u, e)

\* prisma.eventRegistration.create
RegisterWrite(s) ==
    /\ reqs[s].route = "register" /\ reqs[s].pc = "write"
    /\ LET r == reqs[s]
       IN IF dbUp /\ RegistrationAccepted(r.user.id, r.param)
          THEN /\ registrations' = registrations \cup
                        {[userId |-> r.user.id, eventId |-> r.param]}
               /\ reqs' = [reqs EXCEPT ![s] = Respond(r, 201)]
          ELSE /\ reqs' = [reqs EXCEPT ![s] = RespondThrown(r, 500)]
               /\ UNCHANGED registrations
    /\ UNCHANGED <<users, events, dailyStats, activities, mealPlans, nextId, now,
                   dbUp, issued, calc>>

\* DELETE /:id/unregister from prisma.eventRegistration.findUnique to
\* prisma.eventRegistration.delete
UnregisterFind(s) ==
    /\ reqs[s].route = "unregister" /\ reqs[s].pc = "find"
    /\ LET r == reqs[s]
       IN reqs' = [reqs EXCEPT ![s] =
            IF ~dbUp THEN RespondThrown(r, 500)
            ELSE IF RegistrationRows(r.user.id, r.param) = {} THEN Respond(r, 404)
            ELSE Goto(r, "write")]
    /\ UNCHANGED <<Tables, nextId, now, dbUp, issued, calc>>

UnregisterWriteWholeEvent(s) ==
    /\ reqs[s].route = "unregister" /\ reqs[s].pc = "write"
    /\ LET r == reqs[s]
       IN IF dbUp /\ RegistrationRows(r.user.id, r.param) # {}
          THEN /\ registrations' = {g \in registrations : g.eventId # r.param}
               /\ reqs' = [reqs EXCEPT ![s] = Respond(r, 200)]
          ELSE /\ reqs' = [reqs EXCEPT ![s] = RespondThrown(r, 500)]
               /\ UNCHANGED registrations
    /\ UNCHANGED <<users, events, dailyStats, activities, mealPlans, nextId, now,
                   dbUp, issued, calc>>

\* prisma.eventRegistration.delete (throws when the record is gone)
UnregisterWrite(s) ==
    /\ reqs[s].route = "unregister" /\ reqs[s].pc = "write"
    /\ LET r == reqs[s]
       IN IF dbUp /\ RegistrationRows(r.user.id, r.param) # {}
          THEN /\ registrations' = registrations \ RegistrationRows(r.user.id, r.param)
               /\ reqs' = [reqs EXCEPT ![s] = Respond(r, 200)]
          ELSE /\ reqs' = [reqs EXCEPT ![s] = RespondThrown(r, 500)]
               /\ UNCHANGED registrations
    /\ UNCHANGED <<users, events, dailyStats, activities, mealPlans, nextId, now,
                   dbUp, issued, calc>>

(***************************************************************************)
(* The events API under concurrent requests of the two accounts.  Alice    *)
(* has created one event.                                                  *)
(***************************************************************************)
FirstEvent == [id |-> 10, creatorId |-> 1, eventDate |-> 1, name |-> "run"]

InitTables ==
    /\ users = {Alice, Bob}
    /\ events = {FirstEvent}
    /\ registrations = {}
    /\ dailyStats = {}
    /\ activities = {}
    /\ mealPlans = {}
    /\ nextId = 11

InitRest ==
    /\ reqs = [s \in Slots |-> Idle]
    /\ now = 0
    /\ dbUp = TRUE
    /\ issued = 0
    /\ calc = NoLoc

Init == InitTables /\ InitRest

\* the ids the requests name: the first event and the next one created
EventParams == {10, 11}

SessionTokens == {OkTok(1), OkTok(2)}

ArriveRegistration(s) ==
    \E tok \in SessionTokens, route \in {"register", "unregister"} :
        Arrive(s, route, tok, 10, NoBody)

StartRegistration(s) ==
    \E route \in {"register", "unregister"} : EventRouteStart(s, route)

NextRegistration ==
    \/ Tick
    \/ \E s \in Slots :
        \/ ArriveRegistration(s)
        \/ StartRegistration(s)
        \/ RegisterFindEvent(s)
        \/ RegisterFindRegistration(s)
        \/ RegisterWrite(s)
        \/ UnregisterFind(s)
        \/ UnregisterWrite(s)

SpecRegistration == Init /\ [][NextRegistration]_vars

(***************************************************************************)
(* Creating, updating and deleting events, with registrations to lose.     *)
(***************************************************************************)

ArriveOwner(s) ==
    \E tok \in SessionTokens :
        \/ Arrive(s, "create", tok, NoId, EventBody(EventFields, "yoga", 2))
        \/ \E id \in EventParams,
              body \in {EventBody({"name"}, "swim", 0),
                        EventBody({"name", "eventDate"}, "swim", 2)} :
                Arrive(s, "update", tok, id, body)
        \/ \E id \in EventParams : Arrive(s, "delete", tok, id, NoBody)
        \/ Arrive(s, "register", tok, 10, NoBody)
        \/ Arrive(s, "unregister", tok, 10, NoBody)

StartOwner(s) ==
    \E route \in {"update", "delete", "register", "unregister"} :
        EventRouteStart(s, route)

NextOwner ==
    \/ Tick
    \/ \E s \in Slots :
        \/ ArriveOwner(s)
        \/ CreateStart(s)
        \/ CreateWrite(s)
        \/ StartOwner(s)
        \/ UpdateFind(s)
        \/ UpdateWrite(s)
        \/ DeleteFind(s)
        \/ DeleteWrite(s)
        \/ RegisterFindEvent(s)
        \/ RegisterFindRegistration(s)
        \/ RegisterWrite(s)
        \/ UnregisterFind(s)
        \/ UnregisterWrite(s)

SpecOwner == Init /\ [][NextOwner]_vars

(***************************************************************************)
(* userMiddleware.js: validateRegistration, and user.js: POST /register.   *)
(* A field that the body lacks is not in has; a number 0 and a string ""   *)
(* are falsy like a missing field.                                         *)
(***************************************************************************)
RegistrationFields ==
    {"name", "email", "password", "age", "heightCm", "currentWeightKg", "gender",
     "healthGoal", "activityLevel"}

RegistrationBody(has, email, password, age, heightCm, currentWeightKg, gender,
                 healthGoal, activityLevel) ==
    [has |-> has, email |-> email, password |-> password, age |-> age,
     heightCm |-> heightCm, currentWeightKg |-> currentWeightKg,
     gender |-> gender, healthGoal |-> healthGoal, activityLevel |-> activityLevel]

\* the strings of the model that match /^[^\s@]+@[^\s@]+\.[^\s@]+$/
MatchesEmailRegex(e) == e \in {"a@fit.io", "b@fit.io", "c@fit.io"}

validGenders == {"MALE", "FEMALE", "OTHER"}
validHealthGoals == {"WEIGHT_LOSS", "WEIGHT_GAIN", "MAINTENANCE"}
validActivityLevels == {"SEDENTARY", "LIGHT", "MODERATE", "ACTIVE", "VERY_ACTIVE"}

\* !field
Missing(b, f) ==
    \/ f \notin b.has
    \/ f = "age" /\ b.age = 0
    \/ f = "heightCm" /\ b.heightCm = 0
    \/ f = "currentWeightKg" /\ b.currentWeightKg = 0
    \/ f = "email" /\ b.email = ""
    \/ f = "password" /\ b.password = ""
    \/ f = "gender" /\ b.gender = ""
    \/ f = "healthGoal" /\ b.healthGoal = ""
    \/ f = "activityLevel" /\ b.activityLevel = ""

validateRegistrationNoUpperBounds(b) ==
    IF \E f \in RegistrationFields : Missing(b, f) THEN 400
    ELSE IF ~MatchesEmailRegex(b.email) THEN 400
    ELSE IF Len(b.password) < 6 THEN 400
    ELSE IF b.age < 13 THEN 400
    ELSE IF b.heightCm < 50 THEN 400
    ELSE IF b.currentWeightKg < 20 THEN 400
    ELSE IF b.gender \notin validGenders THEN 400
    ELSE IF b.healthGoal \notin validHealthGoals THEN 400
    ELSE 0

\* validateRegistration: the status it answers, or 0 when it calls next()
validateRegistration(b) ==
    IF \E f \in RegistrationFields : Missing(b, f) THEN 400
    ELSE IF ~MatchesEmailRegex(b.email) THEN 400
    ELSE IF Len(b.password) < 6 THEN 400
    ELSE IF b.age < 13 \/ b.age > 120 THEN 400
    ELSE IF b.heightCm < 50 \/ b.heightCm > 300 THEN 400
    ELSE IF b.currentWeightKg < 20 \/ b.currentWeightKg > 500 THEN 400
    ELSE IF b.gender \notin validGenders THEN 400
    ELSE IF b.healthGoal \notin validHealthGoals THEN 400
    ELSE IF b.activityLevel \notin validActivityLevels THEN 400
    ELSE 0

UsersWithEmail(e) == {u \in users : u.email = e}

\* POST /register arrives: validateRegistration, then the handler up to
\* prisma.user.findUnique
ArriveUserRegister(s, body) ==
    /\ Free(s)
    /\ issued < MaxRequests
    /\ issued' = issued + 1
    /\ LET r == [Idle EXCEPT !.route = "userRegister", !.body = body]
           v == validateRegistration(body)
       IN reqs' = [reqs EXCEPT ![s] =
               IF v # 0 THEN Respond(r, v)
               ELSE [r EXCEPT !.pc = "find", !.reached = TRUE]]
    /\ UNCHANGED <<Tables, nextId, now, dbUp, calc>>

\* from prisma.user.findUnique({email}) over bcrypt.hash to prisma.user.create
UserRegisterFind(s) ==
    /\ reqs[s].route = "userRegister" /\ reqs[s].pc = "find"
    /\ LET r == reqs[s]
       IN reqs' = [reqs EXCEPT ![s] =
            IF ~dbUp THEN RespondThrown(r, 500)
            ELSE IF UsersWithEmail(r.body.email) # {} THEN Respond(r, 409)
            ELSE Goto(r, "write")]
    /\ UNCHANGED <<Tables, nextId, now, dbUp, issued, calc>>

\* whether the database accepts a new User with this email (a unique key)
EmailAccepted(e) == UsersWithEmail(e) = {}

\* prisma.user.create and the 201 answer
UserRegisterWrite(s) ==
    /\ reqs[s].route = "userRegister" /\ reqs[s].pc = "write"
    /\ LET r == reqs[s]
           b == r.body
       IN IF dbUp /\ EmailAccepted(b.email)
          THEN /\ users' = users \cup
                    {[id |-> nextId, email |-> b.email, age |-> b.age,
                      heightCm |-> b.heightCm,
                      currentWeightKg |-> b.currentWeightKg,
                      gender |-> b.gender, healthGoal |-> b.healthGoal,
                      activityLevel |-> b.activityLevel]}
               /\ nextId' = nextId + 1
               /\ reqs' = [reqs EXCEPT ![s] = Respond(r, 201)]
          ELSE /\ reqs' = [reqs EXCEPT ![s] = RespondThrown(r, 500)]
               /\ UNCHANGED <<users, nextId>>
    /\ UNCHANGED <<events, registrations, dailyStats, activities, mealPlans, now,
                   dbUp, issued, calc>>

(***************************************************************************)
(* Sign-ups with an email that is taken, free, or asked for twice at once. *)
(***************************************************************************)

NextSignUp ==
    \E s \in Slots :
        \/ \E body \in {RegistrationBody(RegistrationFields, e, "secret", a, 170, 70,
                                        "FEMALE", "WEIGHT_LOSS", "ACTIVE") :
                            e \in {"a@fit.io", "c@fit.io"}, a \in {13, 120}} :
                ArriveUserRegister(s, body)
        \/ UserRegisterFind(s)
        \/ UserRegisterWrite(s)

SpecSignUp == Init /\ [][NextSignUp]_vars

(***************************************************************************)
(* One client that signs up with any body.                                 *)
(***************************************************************************)
AnyRegistrationBodies ==
    {RegistrationBody(RegistrationFields, e, p, a, h, w, g, hg, al) :
        e \in {"c@fit.io", "a@fit.io", "nomail"}, p \in {"12345", "secret"},
        a \in {0, 12, 13, 120, 121}, h \in {0, 49, 50, 300, 301},
        w \in {0, 19, 20, 500, 501}, g \in {"MALE", "male"},
        hg \in {"MAINTENANCE", "WEIGHT_MAINTENANCE"}, al \in {"LIGHT", "LAZY"}}
    \cup
    {RegistrationBody(RegistrationFields \ {f}, "c@fit.io", "secret", 13, 50, 20,
                      "OTHER", "WEIGHT_GAIN", "SEDENTARY") :
        f \in RegistrationFields}

\* the client sends one request
NextValidation ==
    \/ issued = 0 /\ \E body \in AnyRegistrationBodies : ArriveUserRegister(1, body)
    \/ UserRegisterFind(1)
    \/ UserRegisterWrite(1)

SpecValidation == Init /\ [][NextValidation]_vars

(***************************************************************************)
(* stats.js: the routes that ask the language model.  llm.invoke and the   *)
(* parser's parse share one try block: the call fails, the reply does not  *)
(* validate against the schema, or the parsed reply is there.              *)
(***************************************************************************)
LlmOutcomes == {"ok", "callFailed", "invalidReply"}

\* calorieBurnt of the replies to /activity, totalCalories of those to /meal
LlmCalories == {50}

TryRefreshing == [error |-> "not found, try refreshing"]

\* the calendar day of a time: today.setHours(0, 0, 0, 0)
TicksPerDay == 2

DayOf(t) == t \div TicksPerDay

\* POST /bmi up to llm.invoke
BmiStart(s) ==
    /\ Authenticated(s, "bmi")
    /\ LET u == AuthUser(s)
           r == [reqs[s] EXCEPT !.user = u, !.reached = TRUE]
           bmi == BmiFixed(u.heightCm, u.currentWeightKg, 2)
           cat == getBMICategory(bmi)
       IN reqs' = [reqs EXCEPT ![s] =
            IF cat.good
            THEN RespondWith(r, 200, [bmi |-> bmi, bmiCategory |-> cat])
            ELSE [r EXCEPT !.pc = "llm",
                           !.loc = [bmi |-> bmi, cat |-> cat, llm |-> "none"]]]
    /\ UNCHANGED <<Tables, nextId, now, dbUp, issued, calc>>

\* POST /bmi: the reply of the model is parsed and sent
BmiLlm(s) ==
    /\ reqs[s].route = "bmi" /\ reqs[s].pc = "llm"
    /\ \E o \in LlmOutcomes :
        LET r == [reqs[s] EXCEPT !.loc.llm = o]
        IN reqs' = [reqs EXCEPT ![s] =
                IF o = "ok" THEN Respond(r, 200)
                ELSE RespondWith(r, 404, TryRefreshing)]
    /\ UNCHANGED <<Tables, nextId, now, dbUp, issued, calc>>

ActivityBody(has, activity, minutes) ==
    [has |-> has, activity |-> activity, minutes |-> minutes]

\* const { activity, minutes = 30 } = req.body
MinutesOf(b) == IF "minutes" \in b.has THEN b.minutes ELSE 30

\* POST /activity up to llm.invoke
ActivityStart(s) ==
    /\ Authenticated(s, "activity")
    /\ LET u == AuthUser(s)
           r == [reqs[s] EXCEPT !.user = u, !.reached = TRUE]
           b == r.body
       IN reqs' = [reqs EXCEPT ![s] =
            IF "activity" \notin b.has \/ b.activity = ""
            THEN Respond(r, 400)
            ELSE [r EXCEPT !.pc = "llm",
                    !.loc = [calories |->
                                calculateCalories(b.activity, MinutesOf(b),
                                                  u.currentWeightKg),
                             local |->
                                calculateCalories(b.activity, MinutesOf(b),
                                                  u.currentWeightKg),
                             date |-> 0,
                             llm |-> "none"]]]
    /\ UNCHANGED <<Tables, nextId, now, dbUp, issued, calc>>

\* what the catch of the inner try does: with calories it stores them,
\* without it answers 404
ActivityCatchAlways404(r) == RespondWith(r, 404, TryRefreshing)

ActivityCatch(r) ==
    IF ~Falsy(r.loc.calories)
    THEN [r EXCEPT !.pc = "storeLocal", !.loc.date = now]
    ELSE RespondWith(r, 404, TryRefreshing)

\* POST /activity from llm.invoke to prisma.activity.create
ActivityLlm(s) ==
    /\ reqs[s].route = "activity" /\ reqs[s].pc = "llm"
    /\ \E o \in LlmOutcomes, burnt \in LlmCalories :
        LET r == [reqs[s] EXCEPT !.loc.llm = o]
        IN reqs' = [reqs EXCEPT ![s] =
                IF o = "ok"
                THEN [r EXCEPT !.pc = "store", !.loc.date = now,
                        !.loc.calories =
                            IF Falsy(r.loc.calories) THEN Num(burnt) ELSE @]
                ELSE ActivityCatch(r)]
    /\ UNCHANGED <<Tables, nextId, now, dbUp, issued, calc>>

\* date: new Date() is taken when create is called
ActivityRow(r, id) ==
    [id |-> id, userId |-> r.user.id, activityName |-> r.body.activity,
     duration |-> MinutesOf(r.body), caloriesBurnt |-> r.loc.calories,
     date |-> r.loc.date]

\* prisma.activity.create in the try block: when it throws, the catch meant
\* for the model's failure runs
ActivityStore(s) ==
    /\ reqs[s].route = "activity" /\ reqs[s].pc = "store"
    /\ LET r == reqs[s]
       IN IF dbUp /\ UserRows(r.user.id) # {}
          THEN /\ activities' = activities \cup {ActivityRow(r, nextId)}
               /\ nextId' = nextId + 1
               /\ reqs' = [reqs EXCEPT ![s] =
                        RespondWith(r, 200, [calorieBurnt |-> r.loc.calories])]
          ELSE /\ reqs' = [reqs EXCEPT ![s] =
                        ActivityCatch([r EXCEPT !.threw = TRUE])]
               /\ UNCHANGED <<activities, nextId>>
    /\ UNCHANGED <<users, events, registrations, dailyStats, mealPlans, now, dbUp,
                   issued, calc>>

\* prisma.activity.create in the catch block
ActivityStoreLocal(s) ==
    /\ reqs[s].route = "activity" /\ reqs[s].pc = "storeLocal"
    /\ LET r == reqs[s]
       IN IF dbUp /\ UserRows(r.user.id) # {}
          THEN /\ activities' = activities \cup {ActivityRow(r, nextId)}
               /\ nextId' = nextId + 1
               /\ reqs' = [reqs EXCEPT ![s] =
                        RespondWith(r, 200, [calorieBurnt |-> r.loc.calories])]
          ELSE /\ reqs' = [reqs EXCEPT ![s] = RespondThrown(r, 500)]
               /\ UNCHANGED <<activities, nextId>>
    /\ UNCHANGED <<users, events, registrations, dailyStats, mealPlans, now, dbUp,
                   issued, calc>>

MealFields == {"breakfast", "lunch", "dinner", "snacks"}

MealBody(has, breakfast, lunch, dinner, snacks) ==
    [has |-> has, breakfast |-> breakfast, lunch |-> lunch, dinner |-> dinner,
     snacks |-> snacks]

\* a meal of the body, "" when the body lacks it: both are falsy
MealOf(b, f) ==
    IF f \notin b.has THEN ""
    ELSE CASE f = "breakfast" -> b.breakfast
           [] f = "lunch" -> b.lunch
           [] f = "dinner" -> b.dinner
           [] OTHER -> b.snacks

NoPlan ==
    [id |-> NoId, userId |-> NoId, date |-> 0, breakfast |-> "", lunch |-> "",
     dinner |-> "", snacks |-> "", totalCalories |-> 0]

PlansOf(u, day) == {m \in mealPlans : m.userId = u /\ m.date = day}

\* POST /meal up to prisma.mealPlan.findFirst
MealStart(s) ==
    /\ Authenticated(s, "meal")
    /\ LET r == [reqs[s] EXCEPT !.user = AuthUser(s), !.reached = TRUE]
           b == r.body
       IN reqs' = [reqs EXCEPT ![s] =
            IF MealOf(b, "breakfast") = "" /\ MealOf(b, "lunch") = ""
                /\ MealOf(b, "dinner") = ""
            THEN Respond(r, 400)
            ELSE [r EXCEPT !.pc = "find",
                           !.loc = [today |-> DayOf(now), plan |-> NoPlan,
                                    llm |-> "none", totalCalories |-> 0]]]
    /\ UNCHANGED <<Tables, nextId, now, dbUp, issued, calc>>

\* from prisma.mealPlan.findFirst (any plan of today) to llm.invoke
MealFind(s) ==
    /\ reqs[s].route = "meal" /\ reqs[s].pc = "find"
    /\ LET r == reqs[s]
           found == PlansOf(r.user.id, r.loc.today)
       IN IF ~dbUp THEN reqs' = [reqs EXCEPT ![s] = RespondThrown(r, 500)]
          ELSE IF found = {}
               THEN reqs' = [reqs EXCEPT ![s] = Goto(r, "llm")]
               ELSE \E m \in found :
                        reqs' = [reqs EXCEPT ![s] =
                                    [r EXCEPT !.pc = "llm", !.loc.plan = m]]
    /\ UNCHANGED <<Tables, nextId, now, dbUp, issued, calc>>

\* MealLlm that stores the meals of the request before it asks the model
MealLlmStoresFirst(s) ==
    /\ reqs[s].route = "meal" /\ reqs[s].pc = "llm"
    /\ \E o \in LlmOutcomes, kcal \in LlmCalories :
        LET r == [reqs[s] EXCEPT !.loc.llm = o]
        IN /\ reqs' = [reqs EXCEPT ![s] =
                IF o = "ok"
                THEN [r EXCEPT !.pc = "write", !.loc.totalCalories = kcal]
                ELSE RespondWith(r, 404, TryRefreshing)]
           /\ mealPlans' = mealPlans \cup
                {[NoPlan EXCEPT !.id = nextId, !.userId = r.user.id,
                                !.date = r.loc.today,
                                !.breakfast = MealOf(r.body, "breakfast")]}
    /\ nextId' = nextId + 1
    /\ UNCHANGED <<users, events, registrations, dailyStats, activities, now, dbUp,
                   issued, calc>>

\* from llm.invoke to prisma.mealPlan.update or create
MealLlm(s) ==
    /\ reqs[s].route = "meal" /\ reqs[s].pc = "llm"
    /\ \E o \in LlmOutcomes, kcal \in LlmCalories :
        LET r == [reqs[s] EXCEPT !.loc.llm = o]
        IN reqs' = [reqs EXCEPT ![s] =
                IF o = "ok"
                THEN [r EXCEPT !.pc = "write", !.loc.totalCalories = kcal]
                ELSE RespondWith(r, 404, TryRefreshing)]
    /\ UNCHANGED <<Tables, nextId, now, dbUp, issued, calc>>

\* x || y on strings
OrElse(x, y) == IF x # "" THEN x ELSE y

\* prisma.mealPlan.update of the plan found, or prisma.mealPlan.create
MealWrite(s) ==
    /\ reqs[s].route = "meal" /\ reqs[s].pc = "write"
    /\ LET r == reqs[s]
           b == r.body
           old == r.loc.plan
           row == [id |-> IF old.id = NoId THEN nextId ELSE old.id,
                   userId |-> IF old.id = NoId THEN r.user.id ELSE old.userId,
                   date |-> IF old.id = NoId THEN r.loc.today ELSE old.date,
                   breakfast |-> OrElse(MealOf(b, "breakfast"), old.breakfast),
                   lunch |-> OrElse(MealOf(b, "lunch"), old.lunch),
                   dinner |-> OrElse(MealOf(b, "dinner"), old.dinner),
                   snacks |-> OrElse(MealOf(b, "snacks"), old.snacks),
                   totalCalories |-> r.loc.totalCalories]
       IN IF dbUp /\ (IF old.id = NoId
                      THEN UserRows(r.user.id) # {}
                      ELSE \E m \in mealPlans : m.id = old.id)
          THEN /\ mealPlans' = {m \in mealPlans : m.id # row.id} \cup {row}
               /\ nextId' = IF old.id = NoId THEN nextId + 1 ELSE nextId
               /\ reqs' = [reqs EXCEPT ![s] = RespondWith(r, 200, [mealPlan |-> row])]
          ELSE /\ reqs' = [reqs EXCEPT ![s] = RespondThrown(r, 500)]
               /\ UNCHANGED <<mealPlans, nextId>>
    /\ UNCHANGED <<users, events, registrations, dailyStats, activities, now, dbUp,
                   issued, calc>>

\* POST /weight-goal up to llm.invoke; the body's targetWeight is a number,
\* 0 when the body lacks it
WeightGoalStart(s) ==
    /\ Authenticated(s, "weightGoal")
    /\ LET r == [reqs[s] EXCEPT !.user = AuthUser(s), !.reached = TRUE]
           t == r.body.targetWeight
       IN reqs' = [reqs EXCEPT ![s] =
            IF "targetWeight" \notin r.body.has \/ t = 0 THEN Respond(r, 400)
            ELSE IF t < 20 \/ t > 500 THEN Respond(r, 400)
            ELSE [r EXCEPT !.pc = "llm", !.loc = [llm |-> "none"]]]
    /\ UNCHANGED <<Tables, nextId, now, dbUp, issued, calc>>

\* POST /weight-goal: the reply of the model is parsed and sent
WeightGoalLlm(s) ==
    /\ reqs[s].route = "weightGoal" /\ reqs[s].pc = "llm"
    /\ \E o \in LlmOutcomes :
        LET r == [reqs[s] EXCEPT !.loc.llm = o]
        IN reqs' = [reqs EXCEPT ![s] =
                IF o = "ok" THEN Respond(r, 200)
                ELSE RespondWith(r, 404, TryRefreshing)]
    /\ UNCHANGED <<Tables, nextId, now, dbUp, issued, calc>>

\* POST /chat up to prisma.dailyStat.findFirst
ChatStart(s) ==
    /\ Authenticated(s, "chat")
    /\ LET r == [reqs[s] EXCEPT !.user = AuthUser(s), !.reached = TRUE]
       IN reqs' = [reqs EXCEPT ![s] =
            IF "message" \notin r.body.has \/ r.body.message = ""
            THEN Respond(r, 400)
            ELSE [r EXCEPT !.pc = "findStats", !.loc = [llm |-> "none"]]]
    /\ UNCHANGED <<Tables, nextId, now, dbUp, issued, calc>>

\* prisma.dailyStat.findFirst, then prisma.mealPlan.findFirst, then llm.invoke:
\* what they find goes into the prompt only
ChatFind(s) ==
    /\ reqs[s].route = "chat" /\ reqs[s].pc \in {"findStats", "findMeals"}
    /\ LET r == reqs[s]
       IN reqs' = [reqs EXCEPT ![s] =
            IF ~dbUp THEN RespondThrown(r, 500)
            ELSE IF r.pc = "findStats" THEN Goto(r, "findMeals")
            ELSE Goto(r, "llm")]
    /\ UNCHANGED <<Tables, nextId, now, dbUp, issued, calc>>

\* the reply is parsed; relevant or not, the answer is 200
ChatLlm(s) ==
    /\ reqs[s].route = "chat" /\ reqs[s].pc = "llm"
    /\ \E o \in LlmOutcomes :
        LET r == [reqs[s] EXCEPT !.loc.llm = o]
        IN reqs' = [reqs EXCEPT ![s] =
                IF o = "ok" THEN Respond(r, 200)
                ELSE RespondWith(r, 404, TryRefreshing)]
    /\ UNCHANGED <<Tables, nextId, now, dbUp, issued, calc>>

(***************************************************************************)
(* dashboard.js: GET /getdailystats                                        *)
(***************************************************************************)
\* what getRandomInt and getRandomFloat may draw: steps, activeCalories,
\* heartRateAvg and sleepHours (the last two in tenths)
GeneratedStats ==
    {[steps |-> 3000, activeCalories |-> 150, heartRateAvg |-> 600, sleepHours |-> 50],
     [steps |-> 15000, activeCalories |-> 800, heartRateAvg |-> 1100, sleepHours |-> 90]}

NoStat ==
    [id |-> NoId, userId |-> NoId, date |-> 0,
     gen |-> [steps |-> 0, activeCalories |-> 0, heartRateAvg |-> 0, sleepHours |-> 0]]

StatsOf(u, day) == {d \in dailyStats : d.userId = u /\ d.date = day}

\* up to prisma.dailyStat.findFirst
DailyStart(s) ==
    /\ Authenticated(s, "dailystats")
    /\ reqs' = [reqs EXCEPT ![s] =
            [@ EXCEPT !.user = AuthUser(s), !.reached = TRUE, !.pc = "findStat",
                      !.loc = [today |-> DayOf(now), stat |-> NoStat]]]
    /\ UNCHANGED <<Tables, nextId, now, dbUp, issued, calc>>

\* from prisma.dailyStat.findFirst (any stat of today) to
\* prisma.activity.findMany
DailyFindStat(s) ==
    /\ reqs[s].route = "dailystats" /\ reqs[s].pc = "findStat"
    /\ LET r == reqs[s]
           found == StatsOf(r.user.id, r.loc.today)
       IN IF ~dbUp THEN reqs' = [reqs EXCEPT ![s] = RespondThrown(r, 500)]
          ELSE IF found = {}
               THEN reqs' = [reqs EXCEPT ![s] = Goto(r, "findActivities")]
               ELSE \E d \in found :
                        reqs' = [reqs EXCEPT ![s] =
                                [r EXCEPT !.pc = "findActivities", !.loc.stat = d]]
    /\ UNCHANGED <<Tables, nextId, now, dbUp, issued, calc>>

\* the body of the answer
DailyData(r, stat) ==
    [stat |-> stat,
     activitiesCount |->
        Cardinality({a \in activities :
                        a.userId = r.user.id /\ DayOf(a.date) = r.loc.today}),
     bmi |-> DashboardBmi(r.user.heightCm, r.user.currentWeightKg)]

\* from prisma.activity.findMany to the answer, or to prisma.dailyStat.create
\* when no stat of today was found
DailyFindActivities(s) ==
    /\ reqs[s].route = "dailystats" /\ reqs[s].pc = "findActivities"
    /\ LET r == reqs[s]
       IN reqs' = [reqs EXCEPT ![s] =
            IF ~dbUp THEN RespondThrown(r, 500)
            ELSE IF r.loc.stat.id = NoId
                 THEN [r EXCEPT !.pc = "create", !.data = DailyData(r, NoStat)]
            ELSE RespondWith(r, 200, DailyData(r, r.loc.stat))]
    /\ UNCHANGED <<Tables, nextId, now, dbUp, issued, calc>>

\* prisma.dailyStat.create with generated numbers.  The schema is not part
\* of the sources: with a unique key on (userId, date) a second stat of the
\* day is refused and the catch answers 500, without one it is stored.
DailyCreate(s) ==
    /\ reqs[s].route = "dailystats" /\ reqs[s].pc = "create"
    /\ LET r == reqs[s]
       IN \E gen \in GeneratedStats, uniqueKey \in BOOLEAN :
            LET row == [id |-> nextId, userId |-> r.user.id, date |-> r.loc.today,
                        gen |-> gen]
            IN  IF /\ dbUp
                   /\ UserRows(r.user.id) # {}
                   /\ ~(uniqueKey /\ StatsOf(r.user.id, r.loc.today) # {})
                THEN /\ dailyStats' = dailyStats \cup {row}
                     /\ nextId' = nextId + 1
                     /\ reqs' = [reqs EXCEPT ![s] =
                            RespondWith(r, 200, [r.data EXCEPT !.stat = row])]
                ELSE /\ reqs' = [reqs EXCEPT ![s] = RespondThrown(r, 500)]
                     /\ UNCHANGED <<dailyStats, nextId>>
    /\ UNCHANGED <<users, events, registrations, activities, mealPlans, now, dbUp,
                   issued, calc>>

(***************************************************************************)
(* The dashboard of the two accounts over two days.                        *)
(***************************************************************************)
NextDaily ==
    \/ Tick
    \/ \E s \in Slots :
        \/ \E tok \in SessionTokens : Arrive(s, "dailystats", tok, NoId, NoBody)
        \/ DailyStart(s)
        \/ DailyFindStat(s)
        \/ DailyFindActivities(s)
        \/ DailyCreate(s)

SpecDaily == Init /\ [][NextDaily]_vars

(***************************************************************************)
(* One client at a time on every guarded route, with any Authorization     *)
(* header, a language model that may fail and a database that may be down. *)
(***************************************************************************)
\* a token signed for an account that is not in the database
GhostId == 3

ArriveApi(s) ==
    \E tok \in {NoTok, BadTok, OkTok(1), OkTok(GhostId)} :
        \/ Arrive(s, "create", tok, NoId, EventBody(EventFields, "yoga", 2))
        \/ Arrive(s, "update", tok, 10, EventBody({"name"}, "swim", 0))
        \/ \E route \in {"delete", "register", "unregister"} :
                Arrive(s, route, tok, 10, NoBody)
        \/ \E route \in {"bmi", "dailystats"} : Arrive(s, route, tok, NoId, NoBody)
        \/ \E body \in {ActivityBody({"activity"}, "walking", 0),
                ActivityBody({"activity", "minutes"}, "chess", 3),
                ActivityBody({"activity", "minutes"}, "constructor", 3),
                ActivityBody({}, "", 0)} : Arrive(s, "activity", tok, NoId, body)
        \/ \E body \in {MealBody({"breakfast"}, "oats", "", "", ""),
                MealBody({"snacks"}, "", "", "", "nuts")} : Arrive(s, "meal", tok, NoId, body)
        \/ \E body \in {[has |-> {"targetWeight"}, targetWeight |-> w] : w \in {0, 10, 90}}
                : Arrive(s, "weightGoal", tok, NoId, body)
        \/ \E body \in {[has |-> {"message"}, message |-> m] : m \in {"", "hi"}}
                : Arrive(s, "chat", tok, NoId, body)

\* the database goes down or comes back
DbToggle ==
    /\ dbUp' = ~dbUp
    /\ UNCHANGED <<Tables, reqs, nextId, now, issued, calc>>

StartApi(s) ==
    \E route \in {"update", "delete", "register", "unregister"} :
        EventRouteStart(s, route)

NextApi ==
    \/ DbToggle
    \/ ArriveApi(1)
    \/ AuthFail(1)
    \/ CreateStart(1)
    \/ CreateWrite(1)
    \/ StartApi(1)
    \/ UpdateFind(1)
    \/ UpdateWrite(1)
    \/ DeleteFind(1)
    \/ DeleteWrite(1)
    \/ RegisterFindEvent(1)
    \/ RegisterFindRegistration(1)
    \/ RegisterWrite(1)
    \/ UnregisterFind(1)
    \/ UnregisterWrite(1)
    \/ BmiStart(1)
    \/ BmiLlm(1)
    \/ ActivityStart(1)
    \/ ActivityLlm(1)
    \/ ActivityStore(1)
    \/ ActivityStoreLocal(1)
    \/ MealStart(1)
    \/ MealFind(1)
    \/ MealLlm(1)
    \/ MealWrite(1)
    \/ WeightGoalStart(1)
    \/ WeightGoalLlm(1)
    \/ ChatStart(1)
    \/ ChatFind(1)
    \/ ChatLlm(1)
    \/ DailyStart(1)
    \/ DailyFindStat(1)
    \/ DailyFindActivities(1)
    \/ DailyCreate(1)

SpecApi == Init /\ [][NextApi]_vars

(***************************************************************************)
(* user.js: DELETE /delete.  The only foreign keys in the sources are      *)
(* those of the migration: MealPlan.userId is ON DELETE RESTRICT.  The     *)
(* tables added later (Activity, DailyStat, Event, EventRegistration) have *)
(* no migration in the sources: their rows go with the user, as the        *)
(* comments of this handler and of DELETE /:id in events.js say.           *)
(***************************************************************************)
\* rows whose foreign key to User is ON DELETE RESTRICT
RestrictedRows(u) == {m \in mealPlans : m.userId = u}

\* rows of the later tables that reference the user
LaterRows(u) ==
    {a.id : a \in {x \in activities : x.userId = u}}
        \cup {d.id : d \in {x \in dailyStats : x.userId = u}}
        \cup {e.id : e \in {x \in events : x.creatorId = u}}
        \cup {g.eventId : g \in {x \in registrations : x.userId = u}}

\* DELETE /delete up to prisma.user.delete
UserDeleteStart(s) ==
    /\ Authenticated(s, "userDelete")
    /\ reqs' = [reqs EXCEPT ![s] =
            [@ EXCEPT !.user = AuthUser(s), !.pc = "write", !.reached = TRUE]]
    /\ UNCHANGED <<Tables, nextId, now, dbUp, issued, calc>>

\* prisma.user.delete: refused by a restricting foreign key, or the user goes
\* with the rows that cascade
UserDeleteWrite(s) ==
    /\ reqs[s].route = "userDelete" /\ reqs[s].pc = "write"
    /\ LET r == reqs[s]
           u == r.user.id
           gone == {e.id : e \in {x \in events : x.creatorId = u}}
       IN   IF /\ dbUp
               /\ UserRows(u) # {}
               /\ RestrictedRows(u) = {}
            THEN /\ users' = {x \in users : x.id # u}
                 /\ activities' = {x \in activities : x.userId # u}
                 /\ dailyStats' = {x \in dailyStats : x.userId # u}
                 /\ events' = {x \in events : x.creatorId # u}
                 /\ registrations' =
                        {x \in registrations : x.userId # u /\ x.eventId \notin gone}
                 /\ reqs' = [reqs EXCEPT ![s] = Respond(r, 200)]
            ELSE /\ reqs' = [reqs EXCEPT ![s] = RespondThrown(r, 500)]
                 /\ UNCHANGED <<users, activities, dailyStats, events, registrations>>
    /\ UNCHANGED <<mealPlans, nextId, now, dbUp, issued, calc>>

(***************************************************************************)
(* An account that logs a meal, an activity, its daily stats and events,   *)
(* and is then deleted.                                                    *)
(***************************************************************************)
ArriveAccount(s) ==
    \E tok \in SessionTokens :
        \/ Arrive(s, "userDelete", tok, NoId, NoBody)
        \/ Arrive(s, "meal", tok, NoId, MealBody({"breakfast"}, "oats", "", "", ""))
        \/ Arrive(s, "activity", tok, NoId, ActivityBody({"activity"}, "walking", 0))
        \/ Arrive(s, "dailystats", tok, NoId, NoBody)
        \/ Arrive(s, "register", tok, 10, NoBody)

NextAccount ==
    \/ ArriveAccount(1)
    \/ AuthFail(1)
    \/ UserDeleteStart(1)
    \/ UserDeleteWrite(1)
    \/ MealStart(1)
    \/ MealFind(1)
    \/ MealLlm(1)
    \/ MealWrite(1)
    \/ ActivityStart(1)
    \/ ActivityLlm(1)
    \/ ActivityStore(1)
    \/ ActivityStoreLocal(1)
    \/ DailyStart(1)
    \/ DailyFindStat(1)
    \/ DailyFindActivities(1)
    \/ DailyCreate(1)
    \/ EventRouteStart(1, "register")
    \/ RegisterFindEvent(1)
    \/ RegisterFindRegistration(1)
    \/ RegisterWrite(1)

SpecAccount == Init /\ [][NextAccount]_vars

(***************************************************************************)
(* user.js: PUT /update.  A field the body carries is in has, whatever its *)
(* value; the checks test the value's truth first.                         *)
(***************************************************************************)
UpdateFields ==
    {"age", "heightCm", "currentWeightKg", "gender", "healthGoal", "activityLevel",
     "targetWeightKg"}

UpdateBody(has, age, heightCm, currentWeightKg, gender, healthGoal, activityLevel,
           targetWeightKg) ==
    [has |-> has, age |-> age, heightCm |-> heightCm,
     currentWeightKg |-> currentWeightKg, gender |-> gender,
     healthGoal |-> healthGoal, activityLevel |-> activityLevel,
     targetWeightKg |-> targetWeightKg]

\* the checks of PUT /update: the status they answer, or 0
validateUpdate(b) ==
    IF ~Missing(b, "age") /\ (b.age < 13 \/ b.age > 120) THEN 400
    ELSE IF ~Missing(b, "heightCm") /\ (b.heightCm < 50 \/ b.heightCm > 300) THEN 400
    ELSE IF ~Missing(b, "currentWeightKg")
            /\ (b.currentWeightKg < 20 \/ b.currentWeightKg > 500) THEN 400
    ELSE IF "targetWeightKg" \in b.has /\ b.targetWeightKg # 0
            /\ (b.targetWeightKg < 20 \/ b.targetWeightKg > 500) THEN 400
    ELSE IF ~Missing(b, "gender") /\ b.gender \notin validGenders THEN 400
    ELSE IF ~Missing(b, "healthGoal") /\ b.healthGoal \notin validHealthGoals THEN 400
    ELSE IF ~Missing(b, "activityLevel") /\ b.activityLevel \notin validActivityLevels
         THEN 400
    ELSE 0

\* PUT /update up to prisma.user.update
UserUpdateStart(s) ==
    /\ Authenticated(s, "userUpdate")
    /\ LET r == [reqs[s] EXCEPT !.user = AuthUser(s), !.reached = TRUE]
           v == validateUpdate(r.body)
       IN reqs' = [reqs EXCEPT ![s] =
               IF v # 0 THEN Respond(r, v) ELSE Goto(r, "write")]
    /\ UNCHANGED <<Tables, nextId, now, dbUp, issued, calc>>

\* updateData: the fields that are not undefined replace the stored ones
updateData(u, b) ==
    [u EXCEPT
        !.age = IF "age" \in b.has THEN b.age ELSE @,
        !.heightCm = IF "heightCm" \in b.has THEN b.heightCm ELSE @,
        !.currentWeightKg =
            IF "currentWeightKg" \in b.has THEN b.currentWeightKg ELSE @,
        !.gender = IF "gender" \in b.has THEN b.gender ELSE @,
        !.healthGoal = IF "healthGoal" \in b.has THEN b.healthGoal ELSE @,
        !.activityLevel = IF "activityLevel" \in b.has THEN b.activityLevel ELSE @]

\* gender, healthGoal and activityLevel are enums of the database: a value
\* outside the enum is refused by prisma.user.update
EnumsAccepted(u) ==
    /\ u.gender \in validGenders
    /\ u.healthGoal \in validHealthGoals
    /\ u.activityLevel \in validActivityLevels

\* prisma.user.update and the 200 answer
UserUpdateWrite(s) ==
    /\ reqs[s].route = "userUpdate" /\ reqs[s].pc = "write"
    /\ LET r == reqs[s]
           stored == UserRows(r.user.id)
       IN IF dbUp /\ stored # {}
                /\ EnumsAccepted(updateData(CHOOSE u \in stored : TRUE, r.body))
          THEN /\ users' = (users \ stored)
                    \cup {updateData(CHOOSE u \in stored : TRUE, r.body)}
               /\ reqs' = [reqs EXCEPT ![s] = Respond(r, 200)]
          ELSE /\ reqs' = [reqs EXCEPT ![s] = RespondThrown(r, 500)]
               /\ UNCHANGED users
    /\ UNCHANGED <<events, registrations, dailyStats, activities, mealPlans, nextId,
                   now, dbUp, issued, calc>>

(***************************************************************************)
(* One client that signs up and updates profiles, with values on and       *)
(* around every limit.                                                     *)
(***************************************************************************)
ProfileBodies ==
    {UpdateBody({"age"}, a, 0, 0, "", "", "", 0) : a \in {0, 12, 13, 120, 121}}
    \cup {UpdateBody({"heightCm"}, 0, h, 0, "", "", "", 0) : h \in {0, 49, 50, 300, 301}}
    \cup {UpdateBody({"currentWeightKg"}, 0, 0, w, "", "", "", 0) :
            w \in {0, 19, 20, 500, 501}}
    \cup {UpdateBody({"gender"}, 0, 0, 0, g, "", "", 0) : g \in {"", "male", "OTHER"}}
    \cup {UpdateBody({"healthGoal"}, 0, 0, 0, "", g, "", 0) :
            g \in {"", "WEIGHT_MAINTENANCE", "WEIGHT_GAIN"}}
    \cup {UpdateBody({"activityLevel"}, 0, 0, 0, "", "", l, 0) :
            l \in {"", "LAZY", "ACTIVE"}}
    \cup {UpdateBody({"targetWeightKg"}, 0, 0, 0, "", "", "", t) : t \in {0, 19, 60}}
    \cup {UpdateBody(UpdateFields, 13, 300, 20, "FEMALE", "WEIGHT_LOSS", "LIGHT", 60)}

NextProfile ==
    \/ \E body \in {RegistrationBody(RegistrationFields, "c@fit.io", "secret", a, 50,
                                    500, "FEMALE", "WEIGHT_LOSS", "ACTIVE") :
                        a \in {12, 13}} :
            ArriveUserRegister(1, body)
    \/ UserRegisterFind(1)
    \/ UserRegisterWrite(1)
    \/ \E body \in ProfileBodies, tok \in {OkTok(Alice.id), OkTok(11)} :
            Arrive(1, "userUpdate", tok, NoId, body)
    \/ AuthFail(1)
    \/ UserUpdateStart(1)
    \/ UserUpdateWrite(1)

SpecProfile == Init /\ [][NextProfile]_vars

(***************************************************************************)
(* stats.js: the GET routes of activities, in the order router.get         *)
(* registers them.  The router hands a request to the first route whose    *)
(* pattern matches the path; a segment that starts with ':' matches any    *)
(* segment.                                                                *)
(***************************************************************************)
ActivityGetRoutes ==
    <<[name |-> "activities", pattern |-> <<"activities">>],
      [name |-> "activitiesByDate", pattern |-> <<"activities", ":date">>],
      [name |-> "activitiesSummary", pattern |-> <<"activities", "summary">>]>>

IsParam(segment) == segment \in {":date"}

Matches(pattern, path) ==
    /\ Len(pattern) = Len(path)
    /\ \A i \in 1..Len(pattern) : IsParam(pattern[i]) \/ pattern[i] = path[i]

\* the route that handles the path: the first that matches
Dispatch(path) ==
    LET i == CHOOSE i \in 1..Len(ActivityGetRoutes) :
                /\ Matches(ActivityGetRoutes[i].pattern, path)
                /\ \A j \in 1..(i - 1) : ~Matches(ActivityGetRoutes[j].pattern, path)
    IN ActivityGetRoutes[i].name

\* new Date(date) of the strings of the model: the day, or InvalidDate
ParseDate(date) ==
    CASE date = "1970-01-01" -> 0
      [] date = "1970-01-02" -> 1
      [] OTHER -> InvalidDate

\* req.params and req.query of a GET request
GetInputs(path, has, days) == [has |-> has, path |-> path, days |-> days]

\* const { days = 7 } = req.query
DaysOf(b) == IF "days" \in b.has THEN b.days ELSE 7

\* a GET request for an activities path arrives and is dispatched
ArriveGet(s, path, tok, has, days) ==
    Arrive(s, Dispatch(path), tok, NoId, GetInputs(path, has, days))

\* GET /activities/:date up to prisma.activity.findMany
ActivitiesByDateStart(s) ==
    /\ Authenticated(s, "activitiesByDate")
    /\ LET r == [reqs[s] EXCEPT !.user = AuthUser(s), !.reached = TRUE]
           day == ParseDate(r.body.path[2])
       IN reqs' = [reqs EXCEPT ![s] =
            IF day = InvalidDate THEN Respond(r, 400)
            ELSE [r EXCEPT !.pc = "find", !.loc = [day |-> day]]]
    /\ UNCHANGED <<Tables, nextId, now, dbUp, issued, calc>>

\* prisma.activity.findMany of the day and the answer
ActivitiesByDateFind(s) ==
    /\ reqs[s].route = "activitiesByDate" /\ reqs[s].pc = "find"
    /\ LET r == reqs[s]
           found == {a \in activities :
                        a.userId = r.user.id /\ DayOf(a.date) = r.loc.day}
       IN reqs' = [reqs EXCEPT ![s] =
            IF ~dbUp THEN RespondThrown(r, 500)
            ELSE RespondWith(r, 200, [activities |-> found,
                                      totalActivities |-> Cardinality(found)])]
    /\ UNCHANGED <<Tables, nextId, now, dbUp, issued, calc>>

\* GET /activities/summary up to prisma.activity.findMany
ActivitiesSummaryStart(s) ==
    /\ Authenticated(s, "activitiesSummary")
    /\ reqs' = [reqs EXCEPT ![s] =
            [@ EXCEPT !.user = AuthUser(s), !.reached = TRUE, !.pc = "find",
                      !.loc = [since |-> DayOf(now) - DaysOf(reqs[s].body)]]]
    /\ UNCHANGED <<Tables, nextId, now, dbUp, issued, calc>>

\* prisma.activity.findMany since daysAgo and the answer
ActivitiesSummaryFind(s) ==
    /\ reqs[s].route = "activitiesSummary" /\ reqs[s].pc = "find"
    /\ LET r == reqs[s]
           found == {a \in activities :
                        a.userId = r.user.id /\ DayOf(a.date) >= r.loc.since}
       IN reqs' = [reqs EXCEPT ![s] =
            IF ~dbUp THEN RespondThrown(r, 500)
            ELSE RespondWith(r, 200, [activities |-> found,
                                      totalActivities |-> Cardinality(found),
                                      period |-> DaysOf(r.body)])]
    /\ UNCHANGED <<Tables, nextId, now, dbUp, issued, calc>>

(***************************************************************************)
(* One client that logs activities and asks for them by date and in        *)
(* summary.  No path is dispatched to GET /activities/summary, so its      *)
(* handler takes no step.                                                  *)
(***************************************************************************)

ArriveActivities(s) ==
    \E tok \in SessionTokens :
        \/ \E path \in {<<"activities", d>> :
                            d \in {"summary", "1970-01-01", "1970-01-02", "today"}} :
                \/ ArriveGet(s, path, tok, {}, 0)
                \/ ArriveGet(s, path, tok, {"days"}, 1)
        \/ Arrive(s, "activity", tok, NoId, ActivityBody({"activity"}, "walking", 0))

NextActivities ==
    \/ Tick
    \/ ArriveActivities(1)
    \/ ActivityStart(1)
    \/ ActivityLlm(1)
    \/ ActivityStore(1)
    \/ ActivityStoreLocal(1)
    \/ ActivitiesByDateStart(1)
    \/ ActivitiesByDateFind(1)

SpecActivities == Init /\ [][NextActivities]_vars

(***************************************************************************)
(* Meals logged by requests that may overlap, over two days.               *)
(***************************************************************************)

NextMeals ==
    \/ Tick
    \/ \E s \in Slots :
        \/ \E body \in {MealBody({"breakfast"}, "oats", "", "", ""),
                MealBody({"lunch", "breakfast"}, "", "salad", "", ""),
                MealBody({"dinner", "snacks"}, "", "", "soup", "nuts"),
                MealBody({"snacks"}, "", "", "", "nuts")}
                : Arrive(s, "meal", OkTok(Alice.id), NoId, body)
        \/ MealStart(s)
        \/ MealFind(s)
        \/ MealLlm(s)
        \/ MealWrite(s)

SpecMeals == Init /\ [][NextMeals]_vars

(***************************************************************************)
(* Activities logged with known and unknown names and any minutes, by      *)
(* requests that may overlap; the model may fail.                          *)
(***************************************************************************)

NextActivityLog ==
    \E s \in Slots :
        \/ \E body \in ({ActivityBody({"activity", "minutes"}, a, n) :
                a \in {"walking", "Running", "chess", "constructor"}, n \in {0, MaxMinutes}}
                \cup {ActivityBody({"activity"}, "yoga", 0), ActivityBody({"minutes"}, "", 3)}) :
                Arrive(s, "activity", OkTok(Alice.id), NoId, body)
        \/ ActivityStart(s)
        \/ ActivityLlm(s)
        \/ ActivityStore(s)
        \/ ActivityStoreLocal(s)

SpecActivityLog == Init /\ [][NextActivityLog]_vars

(***************************************************************************)
(* stats.js: GET /activities and GET /meals, and the two accounts using     *)
(* the stats and dashboard routes side by side, Alice in the first slot and *)
(* Bob in the second.  Every row fits the first page of GET /activities,   *)
(* and no activityName filter is sent.                                     *)
(***************************************************************************)
\* the days a date of req.query bounds the listing by: none when the date is
\* missing, empty or unparseable
BoundOf(b, f, date) ==
    IF f \notin b.has \/ date = "" \/ ParseDate(date) = InvalidDate THEN {}
    ELSE {ParseDate(date)}

\* GET /activities up to prisma.activity.findMany: whereCondition
ActivitiesStart(s) ==
    /\ Authenticated(s, "activities")
    /\ LET b == reqs[s].body
       IN reqs' = [reqs EXCEPT ![s] =
            [@ EXCEPT !.user = AuthUser(s), !.reached = TRUE, !.pc = "find",
                      !.loc = [userId |-> AuthUser(s).id,
                               gte |-> BoundOf(b, "startDate", b.startDate),
                               lte |-> BoundOf(b, "endDate", b.endDate),
                               activities |-> {}]]]
    /\ UNCHANGED <<Tables, nextId, now, dbUp, issued, calc>>

\* the rows that whereCondition selects
WhereActivitiesAnyUser(where) ==
    {a \in activities :
        /\ \A d \in where.gte : DayOf(a.date) >= d
        /\ \A d \in where.lte : DayOf(a.date) =< d}

WhereActivities(where) ==
    {a \in activities :
        /\ a.userId = where.userId
        /\ \A d \in where.gte : DayOf(a.date) >= d
        /\ \A d \in where.lte : DayOf(a.date) =< d}

\* prisma.activity.findMany, then prisma.activity.count and the answer
ActivitiesFind(s) ==
    /\ reqs[s].route = "activities" /\ reqs[s].pc \in {"find", "count"}
    /\ LET r == reqs[s]
       IN reqs' = [reqs EXCEPT ![s] =
            IF ~dbUp THEN RespondThrown(r, 500)
            ELSE IF r.pc = "find"
                 THEN [r EXCEPT !.pc = "count",
                                !.loc.activities = WhereActivities(r.loc)]
            ELSE RespondWith(r, 200,
                    [activities |-> r.loc.activities,
                     totalActivities |-> Cardinality(WhereActivities(r.loc))])]
    /\ UNCHANGED <<Tables, nextId, now, dbUp, issued, calc>>

\* GET /meals up to prisma.mealPlan.findMany
MealsStart(s) ==
    /\ Authenticated(s, "meals")
    /\ reqs' = [reqs EXCEPT ![s] =
            [@ EXCEPT !.user = AuthUser(s), !.reached = TRUE, !.pc = "find"]]
    /\ UNCHANGED <<Tables, nextId, now, dbUp, issued, calc>>

\* prisma.mealPlan.findMany and the answer
MealsFind(s) ==
    /\ reqs[s].route = "meals" /\ reqs[s].pc = "find"
    /\ LET r == reqs[s]
           found == {m \in mealPlans : m.userId = r.user.id}
       IN reqs' = [reqs EXCEPT ![s] =
            IF ~dbUp THEN RespondThrown(r, 500)
            ELSE RespondWith(r, 200, [mealPlans |-> found,
                                      total |-> Cardinality(found)])]
    /\ UNCHANGED <<Tables, nextId, now, dbUp, issued, calc>>

NextIsolation ==
    \E s \in Slots :
        \/ \E tok \in {OkTok(IF s = 1 THEN Alice.id ELSE Bob.id)} :
            \/ Arrive(s, "activity", tok, NoId,
                      ActivityBody({"activity", "minutes"}, "walking", MaxMinutes))
            \/ Arrive(s, "meal", tok, NoId, MealBody({"breakfast"}, "oats", "", "", ""))
            \/ Arrive(s, "meals", tok, NoId, NoBody)
            \/ Arrive(s, "dailystats", tok, NoId, NoBody)
            \/ \E has \in {{}, {"startDate"}, {"endDate"}} :
                    Arrive(s, "activities", tok, NoId,
                           [has |-> has, startDate |-> "1970-01-02",
                            endDate |-> "1970-01-01"])
        \/ ActivityStart(s)
        \/ ActivityLlm(s)
        \/ ActivityStore(s)
        \/ ActivityStoreLocal(s)
        \/ MealStart(s)
        \/ MealFind(s)
        \/ MealLlm(s)
        \/ MealWrite(s)
        \/ MealsStart(s)
        \/ MealsFind(s)
        \/ ActivitiesStart(s)
        \/ ActivitiesFind(s)
        \/ DailyStart(s)
        \/ DailyFindStat(s)
        \/ DailyFindActivities(s)
        \/ DailyCreate(s)

SpecIsolation == Init /\ [][NextIsolation]_vars

(***************************************************************************)
(* One client that creates and updates events with dates before, at and    *)
(* after the current time, while time passes and the database may fail.    *)
(***************************************************************************)

NextEventDates ==
    \/ Tick
    \/ DbToggle
    \/ \E tok \in SessionTokens :
        \/ \E body \in ({EventBody(EventFields, "yoga", d) : d \in {InvalidDate} \cup 0..MaxTime}
                \cup {EventBody(EventFields \ {f}, "yoga", MaxTime) : f \in {"name", "eventDate"}})
                : Arrive(1, "create", tok, NoId, body)
        \/ \E body \in ({EventBody({"eventDate"}, "", d) : d \in {InvalidDate} \cup 0..MaxTime}
                \cup {EventBody({"name"}, "swim", 0)}), id \in EventParams :
                Arrive(1, "update", tok, id, body)
    \/ AuthFail(1)
    \/ CreateStart(1)
    \/ CreateWrite(1)
    \/ EventRouteStart(1, "update")
    \/ UpdateFind(1)
    \/ UpdateWrite(1)

SpecEventDates == Init /\ [][NextEventDates]_vars

(***************************************************************************)
(* Two clients that register for the first event or for a missing one,     *)
(* while time passes, the creator moves the event and the database may     *)
(* fail.                                                                   *)
(***************************************************************************)

NextRegisterDates ==
    \/ Tick
    \/ DbToggle
    \/ \E tok \in SessionTokens, id \in EventParams :
            Arrive(1, "register", tok, id, NoBody)
    \/ AuthFail(1)
    \/ EventRouteStart(1, "register")
    \/ RegisterFindEvent(1)
    \/ RegisterFindRegistration(1)
    \/ RegisterWrite(1)
    \/ \E body \in {EventBody({"eventDate"}, "", MaxTime)}
            : Arrive(2, "update", OkTok(Alice.id), 10, body)
    \/ AuthFail(2)
    \/ EventRouteStart(2, "update")
    \/ UpdateFind(2)
    \/ UpdateWrite(2)

SpecRegisterDates == Init /\ [][NextRegisterDates]_vars

(***************************************************************************)
(* The two BMI classifications applied to a user's height and weight, and  *)
(* the calorie estimate applied to an activity.                            *)
(***************************************************************************)

InitBmi ==
    /\ InitTables
    /\ reqs = [s \in Slots |-> Idle]
    /\ now = 0 /\ dbUp = TRUE /\ issued = 0
    /\ \E h \in {0, 160, 165, 200}, w \in ({0} \cup (60 .. 125)) :
            calc = [op |-> "none", heightCm |-> h, weightKg |-> w, bmi |-> Null,
                    cat |-> NoCat]

\* POST /bmi: bmi to two decimals, then getBMICategory
ClassifyStats ==
    /\ calc.op = "none"
    /\ LET bmi == BmiFixed(calc.heightCm, calc.weightKg, 2)
       IN calc' = [calc EXCEPT !.op = "stats", !.bmi = bmi,
                               !.cat = getBMICategory(bmi)]
    /\ UNCHANGED <<Tables, reqs, nextId, now, dbUp, issued>>

\* GET /getdailystats: bmi to one decimal, then the inline classification
ClassifyDashboard ==
    /\ calc.op = "none"
    /\ LET d == DashboardBmi(calc.heightCm, calc.weightKg)
       IN calc' = [calc EXCEPT !.op = "dashboard", !.bmi = d.bmi,
                               !.cat = d.bmiCategory]
    /\ UNCHANGED <<Tables, reqs, nextId, now, dbUp, issued>>

NextBmi == ClassifyStats \/ ClassifyDashboard

SpecBmi == InitBmi /\ [][NextBmi]_vars

InitCalories ==
    /\ InitTables
    /\ reqs = [s \in Slots |-> Idle]
    /\ now = 0 /\ dbUp = TRUE /\ issued = 0
    /\ \E a \in ActivityNames, m \in 0 .. MaxMinutes, w \in {35, 70, 105} :
            calc = [op |-> "none", activity |-> a, minutes |-> m, weightKg |-> w,
                    out |-> Null]

Calculate ==
    /\ calc.op = "none"
    /\ calc' = [calc EXCEPT !.op = "calories",
                    !.out = calculateCalories(calc.activity, calc.minutes,
                                              calc.weightKg)]
    /\ UNCHANGED <<Tables, reqs, nextId, now, dbUp, issued>>

NextCalories == Calculate

SpecCalories == InitCalories /\ [][NextCalories]_vars

(***************************************************************************)
(* Claims about the events API.                                            *)
(***************************************************************************)
\* a register request that is past its event lookup (the event exists and
\* is not over) is answered in this step
RegisterAnswered(s) ==
    /\ reqs[s].route = "register"
    /\ reqs[s].pc \in {"findReg", "write"}
    /\ reqs'[s].pc = "done"

\* C1: a register request by U for E that is processed when a registration
\* (U,E) already exists is answered 409 and creates no registration, under
\* every interleaving of register requests
C1_DuplicateRegistrationIs409 ==
    [][\A s \in Slots :
         (RegisterAnswered(s) /\ RegistrationRows(reqs[s].user.id, reqs[s].param) # {})
             => (reqs'[s].status = 409 /\ registrations' = registrations)]_vars

\* two register requests of one user for one event overlapped: one was
\* answered 201 and the other one met the registration of the first
C1_RaceSeen ==
    /\ reqs[1].route = "register" /\ reqs[2].route = "register"
    /\ reqs[1].tok = reqs[2].tok
    /\ reqs[1].status = 201
    /\ reqs[2].pc = "done" /\ reqs[2].status # 409 /\ reqs[2].reached

\* C9: an event is changed or removed only by the step of an update or
\* delete request of its creator that is answered 200; an update or delete
\* request by another user is answered 403 and changes neither the events nor
\* the registrations; one for an event that does not exist is answered 404
C9_OnlyCreatorChangesEvent ==
    [][/\ \A e \in events :
            e \notin events' =>
                \E s \in Slots :
                    /\ reqs[s].route \in {"update", "delete"}
                    /\ reqs[s].pc = "write"
                    /\ reqs[s].param = e.id
                    /\ reqs[s].tok = OkTok(e.creatorId)
                    /\ reqs'[s].status = 200
       /\ \A s \in Slots :
            (reqs[s].route \in {"update", "delete"} /\ reqs[s].pc = "find"
                /\ reqs'[s].pc # "find") =>
                /\ EventRows(reqs[s].param) = {} => reqs'[s].status = 404
                /\ \A e \in EventRows(reqs[s].param) :
                        e.creatorId # reqs[s].tok.userId =>
                            /\ reqs'[s].status = 403
                            /\ events' = events
                            /\ registrations' = registrations]_vars

\* Bob was refused the deletion of Alice's event, which has a registration
C9_Refused ==
    \E s \in Slots :
        /\ reqs[s].route = "delete" /\ reqs[s].status = 403
        /\ reqs[s].tok = OkTok(2)
        /\ \E g \in registrations : g.eventId = reqs[s].param

(***************************************************************************)
(* Claims about signing up.                                                *)
(***************************************************************************)
\* C2: a sign-up whose email belongs to a stored user when it is processed
\* is answered 409 and creates no user, under every interleaving of sign-ups
C2_DuplicateEmailIs409 ==
    [][\A s \in Slots :
         (/\ reqs[s].route = "userRegister"
          /\ reqs[s].pc \in {"find", "write"}
          /\ reqs'[s].pc = "done"
          /\ UsersWithEmail(reqs[s].body.email) # {})
             => (reqs'[s].status = 409 /\ users' = users)]_vars

\* the part of C2 that the unique key of the database keeps
C2_EmailsDistinct ==
    \A u, v \in users : u.email = v.email => u = v

\* a body that C3 names: a number out of range or an enum value not allowed
OutOfRange(b) ==
    \/ b.age < 13 \/ b.age > 120
    \/ b.heightCm < 50 \/ b.heightCm > 300
    \/ b.currentWeightKg < 20 \/ b.currentWeightKg > 500
    \/ b.gender \notin {"MALE", "FEMALE", "OTHER"}
    \/ b.healthGoal \notin {"WEIGHT_LOSS", "WEIGHT_GAIN", "MAINTENANCE"}
    \/ b.activityLevel \notin {"SEDENTARY", "LIGHT", "MODERATE", "ACTIVE", "VERY_ACTIVE"}

\* C3: a sign-up whose body is out of range is answered 400 on arrival, the
\* handler is not reached and no user is created
C3_OutOfRangeIs400 ==
    [][\A s \in Slots :
         (reqs'[s].route = "userRegister" /\ OutOfRange(reqs'[s].body)) =>
            /\ reqs'[s].pc = "done"
            /\ reqs'[s].status = 400
            /\ ~reqs'[s].reached
            /\ (reqs'[s] # reqs[s] => users' = users)]_vars

\* a sign-up with nothing wrong but the height (301 cm) was refused
C3_Refused ==
    /\ reqs[1].route = "userRegister" /\ reqs[1].status = 400
    /\ reqs[1].body.heightCm = 301
    /\ validateRegistration([reqs[1].body EXCEPT !.heightCm = 300]) = 0
    /\ users = {Alice, Bob}

(***************************************************************************)
(* Claims about the BMI category and the calorie estimate.                 *)
(***************************************************************************)
\* the category the thresholds give a bmi in hundredths
C4_ByThresholds(v) ==
    IF v < 1850 THEN "Underweight"
    ELSE IF v < 2500 THEN "Normal"
    ELSE IF v < 3000 THEN "Overweight"
    ELSE "Obese"

\* C4: both classifications give every bmi one of the four categories, the
\* one its thresholds name, and good exactly for Normal
C4_BmiCategory ==
    (calc.op \in {"stats", "dashboard"} /\ calc.bmi # Null) =>
        /\ calc.cat.category \in {"Underweight", "Normal", "Overweight", "Obese"}
        /\ calc.cat.good <=> calc.cat.category = "Normal"
        /\ calc.bmi.kind = "number" =>
                calc.cat.category = C4_ByThresholds(calc.bmi.v)

\* the dashboard classified a bmi of exactly 25.0
C4_AtThreshold ==
    calc.op = "dashboard" /\ calc.bmi = Num(2500) /\ calc.cat.category = "Overweight"

\* C5: calculateCalories is round(rate x minutes x weightKg / 70) for the
\* eight activities, compared without case, and null for every other name
C5_CaloriesOrNull ==
    calc.op = "calories" =>
        LET key == toLowerCase(calc.activity)
        IN  IF key \in {"walking", "running", "swimming", "cycling", "yoga",
                        "skipping", "dancing", "weightlifting"}
            THEN calc.out.kind = "number"
                 /\ 140 * calc.out.v <= 2 * activityCalories[key] * calc.minutes * calc.weightKg + 70
                 /\ 140 * calc.out.v > 2 * activityCalories[key] * calc.minutes * calc.weightKg - 70
            ELSE calc.out = Null

\* the estimate of a known activity, written with capitals, was rounded up
\* from a half: 3 minutes of cycling at 35 kg are 10.5 kcal
C5_KnownSeen ==
    calc.op = "calories" /\ calc.activity = "CYCLING" /\ calc.minutes = 3
        /\ calc.weightKg = 35 /\ calc.out = Num(11)

LlmRoutes == {"bmi", "activity", "meal", "weightGoal", "chat"}

\* the request asked the model and the call failed or the reply did not parse
LlmFailed(r) ==
    /\ r.route \in LlmRoutes
    /\ "llm" \in DOMAIN r.loc
    /\ r.loc.llm \in {"callFailed", "invalidReply"}

\* C6 as stated: on every LLM-backed endpoint a request whose model call
\* failed, or whose reply did not validate, is answered 404 with the error
\* 'not found, try refreshing'
C6_LlmFailureIs404 ==
    \A s \in Slots :
        (reqs[s].pc = "done" /\ LlmFailed(reqs[s]))
            => reqs[s].status = 404 /\ reqs[s].data = TryRefreshing

\* C6: a request whose model call failed, or whose reply did not validate, is
\* answered 404 with the error 'not found, try refreshing', except on
\* POST /activity when the local calorie estimate is a non-zero number: there
\* the activity is stored with the local estimate and the answer is 200 with
\* that estimate, or 500 when storing it fails
C6_LlmFailureAnswer ==
    \A s \in Slots :
        LET r == reqs[s]
        IN (r.pc = "done" /\ LlmFailed(r)) =>
            IF r.route = "activity" /\ ~Falsy(r.loc.local)
            THEN \/ /\ r.status = 200
                    /\ r.data = [calorieBurnt |-> r.loc.local]
                    /\ \E a \in activities :
                            /\ a.userId = r.user.id
                            /\ a.activityName = r.body.activity
                            /\ a.caloriesBurnt = r.loc.local
                 \/ r.status = 500 /\ r.threw
            ELSE r.status = 404 /\ r.data = TryRefreshing

\* the model failed on a walk of 30 minutes and the answer is 200
C6_LocalEstimateAnswered ==
    \E s \in Slots :
        /\ reqs[s].pc = "done" /\ LlmFailed(reqs[s])
        /\ reqs[s].route = "activity" /\ reqs[s].status = 200

\* C7: a request without a bearer token is answered 401 and one whose token
\* fails verification is answered 403, both at once; the route handler is
\* not executed and the step that refuses the request changes no table
C7_UnauthenticatedRefused ==
    [][\A s \in Slots :
        LET r == reqs'[s]
        IN /\ (r.pc # "idle" /\ r.tok.kind = "none")
                => (r.pc = "done" /\ r.status = 401 /\ ~r.reached)
           /\ r.tok.kind = "bad"
                => (r.pc = "done" /\ r.status = 403 /\ ~r.reached)
           /\ (r # reqs[s] /\ r.tok.kind # "ok") => Tables' = Tables]_vars

\* a request with a token that does not verify was refused after another
\* request had stored something
C7_Refused ==
    \E s \in Slots :
        /\ reqs[s].pc = "done" /\ reqs[s].tok.kind = "bad" /\ reqs[s].status = 403
        /\ Tables # <<{Alice, Bob}, {FirstEvent}, {}, {}, {}, {}>>

\* C8 as stated: a request during which a database call failed is answered,
\* and the answer is 500
C8_DbFailureIs500 ==
    \A s \in Slots :
        reqs[s].threw =>
            /\ reqs[s].pc # "hung"
            /\ reqs[s].pc = "done" => reqs[s].status = 500

\* the user lookup of authenticateToken failed and the request is left
\* without an answer
C8_Hung == \E s \in Slots : reqs[s].pc = "hung"

\* C10 as stated: at most one DailyStat per user and day, and all answered
\* requests of a user on a day carry the same stored numbers
C10_OneStatPerDay ==
    /\ \A u \in {Alice.id, Bob.id}, d \in 0..MaxTime : Cardinality(StatsOf(u, d)) <= 1
    /\ \A s, t \in Slots :
        (/\ reqs[s].route = "dailystats" /\ reqs[s].pc = "done"
         /\ reqs[t].route = "dailystats" /\ reqs[t].pc = "done"
         /\ reqs[s].user.id = reqs[t].user.id
         /\ reqs[s].loc.today = reqs[t].loc.today)
          => /\ reqs[s].status = 200 /\ reqs[t].status = 200
             /\ reqs[s].data.stat.gen = reqs[t].data.stat.gen

\* two overlapping requests of one user were both answered 200, with
\* different numbers
C10_RaceSeen ==
    \E s, t \in Slots :
        /\ reqs[s].route = "dailystats" /\ reqs[s].pc = "done" /\ reqs[s].status = 200
        /\ reqs[t].route = "dailystats" /\ reqs[t].pc = "done" /\ reqs[t].status = 200
        /\ reqs[s].user.id = reqs[t].user.id
        /\ reqs[s].loc.today = reqs[t].loc.today
        /\ reqs[s].data.stat.gen # reqs[t].data.stat.gen

\* rows of any table that reference the user
RowsOf(u) == RestrictedRows(u) \cup {[id |-> i] : i \in LaterRows(u)}

\* C11 as stated: DELETE /api/users/delete by an authenticated user is
\* answered 200 whatever records the user has, and afterwards neither the
\* user nor a record referencing the user is stored
C11_DeleteRemovesAll ==
    \A s \in Slots :
        (reqs[s].route = "userDelete" /\ reqs[s].pc = "done" /\ reqs[s].reached)
            => /\ reqs[s].status = 200
               /\ UserRows(reqs[s].user.id) = {}
               /\ RowsOf(reqs[s].user.id) = {}

\* the delete of an account with a meal plan was refused: the account and
\* the plan are still stored
C11_Restricted ==
    \E s \in Slots :
        /\ reqs[s].route = "userDelete" /\ reqs[s].pc = "done"
        /\ reqs[s].status = 500
        /\ UserRows(reqs[s].user.id) # {}
        /\ RestrictedRows(reqs[s].user.id) # {}

\* the limits of a stored user
UserInRange(u) ==
    /\ 13 <= u.age /\ u.age <= 120
    /\ 50 <= u.heightCm /\ u.heightCm <= 300
    /\ 20 <= u.currentWeightKg /\ u.currentWeightKg <= 500
    /\ u.gender \in validGenders
    /\ u.healthGoal \in validHealthGoals
    /\ u.activityLevel \in validActivityLevels

\* the update carries a value outside the limits, 0 and "" included
UpdateOutOfRange(b) ==
    \/ "age" \in b.has /\ (b.age < 13 \/ b.age > 120)
    \/ "heightCm" \in b.has /\ (b.heightCm < 50 \/ b.heightCm > 300)
    \/ "currentWeightKg" \in b.has /\ (b.currentWeightKg < 20 \/ b.currentWeightKg > 500)
    \/ "gender" \in b.has /\ b.gender \notin validGenders
    \/ "healthGoal" \in b.has /\ b.healthGoal \notin validHealthGoals
    \/ "activityLevel" \in b.has /\ b.activityLevel \notin validActivityLevels

\* C12 as stated: after any sequence of sign-ups and updates every stored
\* user is within the limits, and an update that carries a value outside
\* them, 0 and "" included, is answered 400 and changes nothing
C12_UsersInRange ==
    [][/\ \A u \in users' : UserInRange(u)
       /\ \A s \in Slots :
            (/\ reqs'[s].route = "userUpdate" /\ reqs'[s].reached
             /\ reqs[s].pc # "done" /\ reqs'[s].pc = "done"
             /\ UpdateOutOfRange(reqs'[s].body))
                => reqs'[s].status = 400 /\ users' = users]_vars

\* an update with age 0 was answered 200 and a user of age 0 is stored
C12_ZeroStored ==
    /\ \E u \in users : u.age = 0
    /\ \E s \in Slots : reqs[s].route = "userUpdate" /\ reqs[s].status = 200

\* C13 as stated: an authenticated GET /api/stats/activities/summary is
\* handled by the summary handler and answered 200 with the summary of the
\* last `days` days, 7 by default; GET /activities/:date does not take it
C13_SummaryDispatched ==
    \A s \in Slots :
        LET r == reqs[s]
        IN (/\ r.pc = "done" /\ r.reached
            /\ "path" \in DOMAIN r.body
            /\ r.body.path = <<"activities", "summary">>)
            => /\ r.route = "activitiesSummary"
               /\ r.status = 200
               /\ r.data.period = DaysOf(r.body)

\* GET /activities/summary was handled as a date and answered 400
C13_TakenAsDate ==
    \E s \in Slots :
        /\ reqs[s].pc = "done" /\ reqs[s].route = "activitiesByDate"
        /\ reqs[s].body.path = <<"activities", "summary">>
        /\ reqs[s].status = 400

\* C14 as stated: after any interleaving of POST /api/stats/meal requests
\* there is at most one MealPlan per user and calendar day
C14_OnePlanPerDay ==
    \A u \in {Alice.id, Bob.id}, d \in 0..MaxTime : Cardinality(PlansOf(u, d)) <= 1

\* two overlapping requests of one user were both answered 200 and the day
\* has two plans
C14_TwoPlans ==
    /\ \A s \in Slots : reqs[s].route = "meal" /\ reqs[s].status = 200
    /\ \E d \in 0..MaxTime : Cardinality(PlansOf(Alice.id, d)) = 2

PlanMeal(m, f) ==
    CASE f = "breakfast" -> m.breakfast
      [] f = "lunch" -> m.lunch
      [] f = "dinner" -> m.dinner
      [] OTHER -> m.snacks

\* the plan stored under the id
PlanById(plans, id) == CHOOSE m \in plans : m.id = id

\* C15 as stated: when POST /api/stats/meal updates an existing plan, every
\* meal the request omits or sends empty keeps the value stored before the
\* update, every meal it supplies is stored, and userId and date are
\* unchanged
C15_UpdateKeepsOmitted ==
    [][\A s \in Slots :
        (/\ reqs[s].route = "meal" /\ reqs[s].pc = "write"
         /\ reqs[s].loc.plan.id # NoId
         /\ reqs'[s].pc = "done" /\ reqs'[s].status = 200)
          => LET before == PlanById(mealPlans, reqs[s].loc.plan.id)
                 after == PlanById(mealPlans', reqs[s].loc.plan.id)
             IN /\ \A f \in MealFields :
                     PlanMeal(after, f) =
                        IF MealOf(reqs[s].body, f) = "" THEN PlanMeal(before, f)
                        ELSE MealOf(reqs[s].body, f)
                /\ after.userId = before.userId
                /\ after.date = before.date]_vars

\* a plan with breakfast, lunch and dinner: three requests updated it
C15_Updated ==
    \E m \in mealPlans : m.breakfast # "" /\ m.lunch # "" /\ m.dinner # ""

\* C16: a POST /api/stats/meal that is answered 400 or 404 creates and
\* modifies no MealPlan: the step that answers it leaves the plans as they
\* are, and the plans change only in the step that answers a request 200
C16_RejectedMealStoresNothing ==
    [][/\ \A s \in Slots :
            (/\ reqs'[s].route = "meal" /\ reqs'[s].reached
             /\ reqs[s] # reqs'[s]
             /\ reqs'[s].status \in {400, 404})
                => mealPlans' = mealPlans
       /\ mealPlans' # mealPlans
            => \E s \in Slots :
                /\ reqs[s].route = "meal" /\ reqs[s].pc = "write"
                /\ reqs'[s].pc = "done" /\ reqs'[s].status = 200]_vars

\* one request was answered 400 and the other 404 after the model failed,
\* and no plan is stored
C16_Rejected ==
    /\ \E s \in Slots : reqs[s].route = "meal" /\ reqs[s].status = 400
    /\ \E s \in Slots : reqs[s].route = "meal" /\ reqs[s].status = 404
                            /\ LlmFailed(reqs[s])
    /\ mealPlans = {}

\* the activity name is one of the table of calories per minute
KnownActivity(name) == toLowerCase(name) \in DOMAIN activityCalories

\* the rows stored for the request's user and activity with the calories
StoredFor(r, calories) ==
    {a \in activities :
        /\ a.userId = r.user.id
        /\ a.activityName = r.body.activity
        /\ a.duration = MinutesOf(r.body)
        /\ a.caloriesBurnt = calories}

\* C17 as stated: when the LLM call of POST /api/stats/activity succeeds, the
\* caloriesBurnt stored and returned is the local estimate when the activity
\* name is known, whatever the minutes, and the LLM's calorieBurnt only when
\* the name is unknown
C17_LocalEstimateWins ==
    \A s \in Slots :
        LET r == reqs[s]
        IN (/\ r.route = "activity" /\ r.pc = "done" /\ r.status = 200
            /\ r.loc.llm = "ok")
            => /\ StoredFor(r, r.data.calorieBurnt) # {}
               /\ IF KnownActivity(r.body.activity)
                  THEN r.data.calorieBurnt =
                        calculateCalories(r.body.activity, MinutesOf(r.body),
                                          r.user.currentWeightKg)
                  ELSE r.data.calorieBurnt \in {Num(c) : c \in LlmCalories}

\* a walk of 0 minutes was stored with the calories of the LLM
C17_ZeroMinutes ==
    \E s \in Slots :
        /\ reqs[s].route = "activity" /\ reqs[s].status = 200
        /\ reqs[s].body.activity = "walking" /\ MinutesOf(reqs[s].body) = 0
        /\ reqs[s].data.calorieBurnt # Num(0)

\* C18 as stated: when the LLM call or the parsing of its reply fails, a
\* request with a local estimate stores exactly one Activity with it and is
\* answered 200, and one without stores nothing and is answered 404; a
\* request answered with success has stored exactly one Activity and one
\* answered with an error none
C18_StoredIffSuccess ==
    [][/\ \A s \in Slots :
            (/\ reqs'[s].route = "activity" /\ reqs'[s].reached
             /\ reqs[s].pc # "done" /\ reqs'[s].pc = "done")
                => LET r == reqs'[s]
                   IN /\ IF r.status = 200
                         THEN /\ Cardinality(activities') = Cardinality(activities) + 1
                              /\ \A a \in activities' \ activities :
                                    /\ a.userId = r.user.id
                                    /\ a.activityName = r.body.activity
                                    /\ a.caloriesBurnt = r.data.calorieBurnt
                         ELSE activities' = activities
                      /\ LlmFailed(r) =>
                            IF KnownActivity(r.body.activity)
                            THEN /\ r.status = 200
                                 /\ r.data.calorieBurnt = r.loc.local
                            ELSE r.status = 404
       /\ activities' # activities
            => \E s \in Slots : reqs[s].pc # "done" /\ reqs'[s].pc = "done"]_vars

\* the model failed on a walk of 0 minutes: answered 404, nothing stored
C18_ZeroMinutesLost ==
    \E s \in Slots :
        /\ reqs[s].route = "activity" /\ reqs[s].status = 404
        /\ LlmFailed(reqs[s])
        /\ reqs[s].body.activity = "walking"
        /\ activities = {}

\* the supplied eventDate is no date or is earlier than the time t
BadEventDate(b, t) ==
    "eventDate" \in b.has /\ (b.eventDate = InvalidDate \/ b.eventDate < t)

\* a create or update request is answered in this step
EventAnswered(s) ==
    /\ reqs[s].route \in {"create", "update"}
    /\ reqs[s].pc \in {"auth", "find"}
    /\ reqs'[s].pc = "done"
    /\ ~reqs'[s].threw

RegisterChecked(s) ==
    /\ reqs[s].route = "register" /\ reqs[s].pc = "find"
    /\ reqs'[s] # reqs[s]
    /\ ~reqs'[s].threw

\* the answers of the lookup of POST /:id/register: 404 for a missing event,
\* 400 for one whose date is earlier than the current time, nothing created
RegisterRefusals ==
    \A s \in Slots :
        RegisterChecked(s) =>
            /\ EventRows(reqs[s].param) = {} =>
                    reqs'[s].pc = "done" /\ reqs'[s].status = 404
            /\ (\E e \in EventRows(reqs[s].param) : e.eventDate < now) =>
                    reqs'[s].pc = "done" /\ reqs'[s].status = 400
            /\ registrations' = registrations

\* C20 as stated: POST /api/events/:id/register answers 400 for an event
\* whose eventDate is earlier than the current time and 404 for a missing
\* event, creating nothing; and whenever an EventRegistration is created, its
\* event's eventDate is at that moment not earlier than the current time.
C20_RegisteredBeforeEvent ==
    [][/\ RegisterRefusals
       /\ \A g \in registrations' \ registrations :
            \A e \in EventRows(g.eventId) : e.eventDate >= now]_vars

\* C20 amended: the same answers of the lookup; and whenever an
\* EventRegistration is created, the request creating it had looked the event
\* up earlier and found its eventDate not earlier than the time of that
\* lookup.
C20_RegisteredAfterCheck ==
    [][/\ RegisterRefusals
       /\ \A g \in registrations' \ registrations :
            \E s \in Slots :
                /\ reqs[s].route = "register" /\ reqs[s].pc = "write"
                /\ reqs[s].user.id = g.userId /\ reqs[s].param = g.eventId
                /\ reqs[s].loc.eventDate >= reqs[s].loc.at
                /\ reqs[s].loc.at <= now]_vars

\* a registration for an event that is over has been refused with 400
C20_PastRefused ==
    \E s \in Slots :
        /\ reqs[s].route = "register" /\ reqs[s].pc = "done"
        /\ reqs[s].status = 400
        /\ \E e \in EventRows(reqs[s].param) : e.eventDate < now
        /\ registrations = {}

\* the request in slot s takes a step of the given route from the given place
StepsFrom(s, route, pc) ==
    /\ reqs[s].route = route /\ reqs[s].pc = pc
    /\ reqs'[s] # reqs[s]

Answered(s, code) == reqs'[s].pc = "done" /\ reqs'[s].status = code

\* C21: DELETE /api/events/:id/unregister by U for E answers 404 and changes
\* nothing when the registration (U,E) does not exist, and otherwise removes
\* exactly that registration; afterwards (U,E) is absent, and a register
\* request by U for E that finds the event not past and no registration (U,E)
\* creates it and is answered 201.
C21_UnregisterThenRegister ==
    [][\A s \in Slots :
        LET u == reqs[s].user.id
            e == reqs[s].param
            row == [userId |-> u, eventId |-> e]
        IN /\ StepsFrom(s, "unregister", "find") =>
                /\ UNCHANGED Tables
                /\ row \notin registrations => Answered(s, 404)
                /\ row \in registrations => reqs'[s].pc = "write"
           /\ StepsFrom(s, "unregister", "write") =>
                /\ UNCHANGED <<users, events, dailyStats, activities, mealPlans>>
                /\ row \in registrations =>
                        /\ registrations' = registrations \ {row}
                        /\ Answered(s, 200)
                /\ row \notin registrations => UNCHANGED registrations
                /\ Answered(s, 200) => row \notin registrations'
           /\ StepsFrom(s, "register", "find")
                /\ (\E v \in EventRows(e) : v.eventDate >= now) =>
                    reqs'[s].pc = "findReg"
           /\ StepsFrom(s, "register", "findReg") /\ row \notin registrations =>
                    reqs'[s].pc = "write"
           /\ StepsFrom(s, "register", "write") /\ row \notin registrations =>
                /\ registrations' = registrations \cup {row}
                /\ Answered(s, 201)]_vars

\* a user has unregistered with 200 and has then registered again with 201
C21_RegisteredAgain ==
    /\ reqs[1].route = "unregister" /\ reqs[1].pc = "done" /\ reqs[1].status = 200
    /\ reqs[2].route = "register" /\ reqs[2].pc = "done" /\ reqs[2].status = 201
    /\ reqs[1].user = reqs[2].user
    /\ issued = MaxRequests
    /\ [userId |-> reqs[1].user.id, eventId |-> reqs[1].param] \in registrations

Touched(table) == (table' \ table) \cup (table \ table')

\* C23: whenever a stats or dashboard request takes a step, every meal plan,
\* activity and daily stat that the step creates, changes or removes, that it
\* reads into the handler, or that it returns with 200, has userId equal to
\* the user id of the request's token; the counts it returns count no row of
\* another user.
C23_OwnDataOnly ==
    [][\A s \in Slots :
        reqs'[s] # reqs[s] =>
            LET r == reqs'[s]
                me == r.tok.userId
                mine == {a \in activities : a.userId = me}
            IN /\ \A row \in Touched(mealPlans) : row.userId = me
               /\ \A row \in Touched(activities) : row.userId = me
               /\ \A row \in Touched(dailyStats) : row.userId = me
               /\ r.route = "meal" /\ r.pc \in {"llm", "write"} /\ r.loc.plan.id # NoId
                    => r.loc.plan.userId = me
               /\ r.route = "dailystats" /\ r.pc \in {"findActivities", "create"}
                        /\ r.loc.stat.id # NoId
                    => r.loc.stat.userId = me
               /\ r.route = "activities" /\ r.pc = "count"
                    => \A a \in r.loc.activities : a.userId = me
               /\ r.pc = "done" /\ r.status = 200 =>
                    /\ r.route = "meal" => r.data.mealPlan.userId = me
                    /\ r.route = "meals" =>
                            /\ \A m \in r.data.mealPlans : m.userId = me
                            /\ r.data.total = Cardinality(r.data.mealPlans)
                    /\ r.route = "activities" =>
                            /\ \A a \in r.data.activities : a.userId = me
                            /\ r.data.totalActivities =< Cardinality(mine)
                    /\ r.route = "dailystats" =>
                            /\ r.data.stat.userId = me
                            /\ r.data.activitiesCount =< Cardinality(mine)]_vars

\* an account has been sent the list of its own meal plans while the other
\* account has a meal plan stored too
C23_ListedOwnPlans ==
    \E s \in Slots :
        /\ reqs[s].route = "meals" /\ reqs[s].pc = "done" /\ reqs[s].status = 200
        /\ reqs[s].data.mealPlans # {}
        /\ \E m \in mealPlans : m.userId # reqs[s].tok.userId

\* C24: for a user whose height and weight registration accepts, the
\* category that POST /api/stats/bmi reports equals the category that
\* GET /api/dashboard/getdailystats reports.
C24_SameCategory ==
    (calc.op \in {"stats", "dashboard"} /\ calc.heightCm >= 50 /\ calc.weightKg >= 20) =>
        /\ calc.op = "stats" =>
            calc.cat = DashboardBmi(calc.heightCm, calc.weightKg).bmiCategory
        /\ calc.op = "dashboard" =>
            calc.cat = getBMICategory(BmiFixed(calc.heightCm, calc.weightKg, 2))

\* POST /bmi has called a user of 165 cm and 68 kg Normal (24.98), whom the
\* dashboard calls Overweight (25.0)
C24_NormalAndOverweight ==
    /\ calc.op = "stats" /\ calc.heightCm = 165 /\ calc.weightKg = 68
    /\ calc.bmi = Num(2498) /\ calc.cat.category = "Normal"
    /\ DashboardBmi(165, 68) = [bmi |-> Num(2500),
                                bmiCategory |-> BmiCat("Overweight", FALSE)]

====
